---- MODULE Spec2Model ----
(***************************************************************************)
(* Lifecycle synchronisation of Booking, Job, Commission and Invoice in    *)
(* the ITAD frontend's mock service layer (booking.service.ts,             *)
(* sanitisation.service.ts, grading.service.ts, commission service).      *)
(*                                                                         *)
(* Spec explores the booking and job lifecycle; PricingSpec enumerates the *)
(* arithmetic of completeBooking over quantities and buyback values;       *)
(* CommissionSpec explores the commission service after a completion.      *)
(*                                                                         *)
(* The handlers are async.  A handler whose only await is its initial      *)
(* delay is one atomic action.  completeBooking, createSanitisationRecord  *)
(* and createGradingRecord await dynamic imports after they have begun to  *)
(* write, so each is split at its awaits into stretches, one action per    *)
(* stretch, and the position and locals of a call are kept in inFlight;    *)
(* every other handler can run while such a call is suspended.  Spec,      *)
(* PricingSpec, CommissionSpec, InvoiceSpec, RecordSpec and CascadeSpec    *)
(* keep one such call in flight at a time; SanitisationRaceSpec and        *)
(* CompletionRaceSpec keep two.  Error simulation (shouldSimulateError, a  *)
(* developer toggle kept in localStorage) is switched off.                 *)
(*                                                                         *)
(* Time: `now` is the latest clock reading taken.  Every new Date() and    *)
(* Date.now() is a reading of its own: it is never earlier than the one    *)
(* before it and may fall in the same millisecond, within one handler and  *)
(* across handlers.  Identifiers built from Date.now() (job-, comm-, inv-) *)
(* are modelled by that reading, so two of them can be equal.              *)
(* Sanitisation and grading                                                *)
(* records are modelled by the two fields the services read back,          *)
(* bookingId and assetId.                                                  *)
(***************************************************************************)
EXTENDS Integers, Sequences, FiniteSets, TLC

\* ------------------------------------------------------------------ bounds
\* The clock is capped: no reading is later than MaxTime.
MaxTime == 2
\* Cap on the number of commissions and on the number of invoices: no
\* completeBooking call begins once either array holds this many.
MaxCreated == 2
\* Cap on the number of records the two record services create.
MaxRecords == 2
\* Greatest quantity of a line item, and greatest estimatedBuyback, over which
\* the completion arithmetic is enumerated.
MaxQuantity == 3
MaxBuyback == 1000

\* ------------------------------------------------------------- value sets
\* Booking ids that resolve in mockBookings, and one id that does not.
BookingIds == {"b1"}
UnknownBooking == "b9"
RequestIds == BookingIds \cup {UnknownBooking}

DriverIds == {"d1"}
Actors == {"admin-1"}

\* Asset category ids used by line items and by records.
Categories == {"laptop", "monitor"}

\* Booking['status']
BookingStatus ==
    {"created", "scheduled", "collected", "sanitised", "graded", "completed", "cancelled"}

\* WorkflowStatus (types/jobs.ts)
WorkflowStatus ==
    {"booked", "routed", "en-route", "arrived", "collected", "warehouse",
     "sanitised", "graded", "finalised"}

\* Commission['status']
CommissionStatus == {"pending", "approved", "paid"}

\* Commission ids a caller can pass: ids are built from the clock reading of
\* the completion that created the commission; no commission has id 0.
UnknownCommission == 0
CommissionIds == (1..MaxTime) \cup {UnknownCommission}

\* Invoice['status']
InvoiceStatus == {"draft", "sent", "paid", "overdue", "cancelled"}

\* Invoice ids a caller can pass: ids are built from the clock reading of the
\* completion that created the invoice; no invoice has id 0.
UnknownInvoice == 0
InvoiceIds == (1..MaxTime) \cup {UnknownInvoice}

\* An unset optional field (undefined / '' in the source, both falsy).
Unset == 0

\* Asset line items a booking can be created with (categoryId, quantity).
AssetLists ==
    { << [categoryId |-> "laptop", quantity |-> 2],
         [categoryId |-> "monitor", quantity |-> 3] >>,
      << [categoryId |-> "laptop", quantity |-> 1] >> }

\* (resellerId, resellerName) combinations a booking can carry.
Resellers ==
    { [id |-> "r1", name |-> "Reseller One"],
      [id |-> "", name |-> ""],
      [id |-> "r1", name |-> ""],
      [id |-> "", name |-> "Reseller One"] }

\* estimatedBuyback values a booking can carry.
Buybacks == {1005}

\* ------------------------------------------------------------------ state
VARIABLES
    mockBookings,             \* bookingId -> Booking record
    mockJobs,                 \* array of Job records
    mockCommissions,          \* array of Commission records
    mockInvoices,             \* array of Invoice records
    mockSanitisationRecords,  \* array of SanitisationRecord (bookingId, assetId)
    mockGradingRecords,       \* array of GradingRecord (bookingId, assetId)
    now,                      \* latest clock reading taken
    hasCompleted,             \* history: bookings that have transitioned into completed
    inFlight                  \* callId -> the position and locals of an asynchronous call

vars ==
    << mockBookings, mockJobs, mockCommissions, mockInvoices,
       mockSanitisationRecords, mockGradingRecords, now, hasCompleted, inFlight >>

\* The calls that may be in flight together, and a call that has not begun.
\* Every promise callback runs to its next await without interruption, so a
\* call is at rest only at an await; pc names the await it is suspended at.
CallIds == {"call-1", "call-2"}

NotCalled ==
    [ op |-> "none", pc |-> "idle", bookingId |-> "", assetId |-> "",
      awaited |-> FALSE, observed |-> "none", result |-> "none" ]

NoCalls == [c \in CallIds |-> NotCalled]

\* The calls after call c has returned or thrown: a caller that awaits the
\* promise keeps its outcome, otherwise nothing of the call is left.
Settle(c, observed, result) ==
    [inFlight EXCEPT ![c] =
        IF inFlight[c].awaited
        THEN [@ EXCEPT !.pc = "returned", !.observed = observed, !.result = result]
        ELSE NotCalled]

\* A booking as the booking-creation operation leaves it: status created,
\* no driver, no job, no milestone timestamp.
NewBooking(assets, reseller, buyback) ==
    [ status |-> "created",
      assets |-> assets,
      resellerId |-> reseller.id,
      resellerName |-> reseller.name,
      estimatedBuyback |-> buyback,
      driverId |-> "",
      scheduledBy |-> "",
      scheduledAt |-> Unset,
      sanitisedAt |-> Unset,
      gradedAt |-> Unset,
      completedAt |-> Unset,
      jobId |-> Unset ]

\* The records both services start with (sanit-001..007, grade-001..007):
\* they belong to bookings other than the modelled ones.
InitialRecords ==
    << [bookingId |-> "booking-005", assetId |-> "laptop"],
       [bookingId |-> "booking-005", assetId |-> "monitor"],
       [bookingId |-> "booking-006", assetId |-> "desktop"],
       [bookingId |-> "booking-006", assetId |-> "printer"],
       [bookingId |-> "booking-007", assetId |-> "laptop"],
       [bookingId |-> "booking-007", assetId |-> "monitor"],
       [bookingId |-> "booking-007", assetId |-> "phone"] >>

Init ==
    /\ mockBookings \in
         [BookingIds -> { NewBooking(a, r, v) :
                            a \in AssetLists, r \in Resellers, v \in Buybacks }]
    /\ mockJobs = << >>
    /\ mockCommissions = << >>
    /\ mockInvoices = << >>
    /\ mockSanitisationRecords = InitialRecords
    /\ mockGradingRecords = InitialRecords
    /\ now = 0
    /\ hasCompleted = {}
    /\ inFlight = NoCalls

\* ---------------------------------------------------------------- helpers
\* The values a clock reading (new Date(), Date.now()) can have when the
\* reading before it was t: the same millisecond or a later one.  A reading
\* is never 0, the value of an unset field.
Readings(t) == { r \in 1..MaxTime : t <= r /\ r <= t + 1 }

\* Math.round(n / d) for n >= 0, d > 0 (halves round up).
MathRound(n, d) == (2 * n + d) \div (2 * d)

\* mockJobs.find(j => j.id === jobId): index of the first match, 0 if none.
FindJob(jobs, jobId) ==
    IF \E i \in DOMAIN jobs : jobs[i].id = jobId
    THEN CHOOSE i \in DOMAIN jobs :
            /\ jobs[i].id = jobId
            /\ \A k \in DOMAIN jobs : jobs[k].id = jobId => i <= k
    ELSE 0

\* validTransitions of updateBookingStatusMock
validTransitions ==
    [ s \in {"created", "scheduled", "collected", "sanitised", "graded"} |->
        CASE s = "created" -> {"scheduled"}
          [] s = "scheduled" -> {"collected"}
          [] s = "collected" -> {"sanitised"}
          [] s = "sanitised" -> {"graded"}
          [] s = "graded" -> {"completed"} ]

\* validTransitions[currentStatus] || []
allowedNextStatuses(currentStatus) ==
    IF currentStatus \in DOMAIN validTransitions
    THEN validTransitions[currentStatus]
    ELSE {}

\* A variant of the transition check that lets "cancelled" through from
\* every status that has a successor.
InvalidTransitionCancelAllowed(currentStatus, status) ==
    /\ status # currentStatus
    /\ allowedNextStatuses(currentStatus) # {}
    /\ status \notin (allowedNextStatuses(currentStatus) \cup {"cancelled"})

\* The condition under which updateBookingStatusMock throws VALIDATION_ERROR.
InvalidTransition(currentStatus, status) ==
    /\ status # currentStatus
    /\ allowedNextStatuses(currentStatus) # {}
    /\ status \notin allowedNextStatuses(currentStatus)

\* "Set timestamps" of updateBookingStatusMock, at clock value t.
SetTimestamps(booking, status, t) ==
    IF status = "sanitised" /\ booking.sanitisedAt = Unset
    THEN [booking EXCEPT !.sanitisedAt = t]
    ELSE IF status = "graded" /\ booking.gradedAt = Unset
    THEN [booking EXCEPT !.gradedAt = t]
    ELSE IF status = "completed" /\ booking.completedAt = Unset
    THEN [booking EXCEPT !.completedAt = t]
    ELSE booking

\* A variant of the job sync that forces the job to the booking's milestone
\* whatever status the job is in.
SyncJobForced(job, status, t) ==
    IF status = "sanitised" THEN [job EXCEPT !.status = "sanitised"]
    ELSE IF status = "graded" THEN [job EXCEPT !.status = "graded"]
    ELSE IF status = "completed"
    THEN [job EXCEPT !.status = "finalised", !.completedDate = t]
    ELSE job

\* "Sync job status when booking status changes" of updateBookingStatusMock.
SyncJob(job, status, t) ==
    IF status = "sanitised" /\ job.status = "warehouse"
    THEN [job EXCEPT !.status = "sanitised"]
    ELSE IF status = "graded" /\ job.status = "sanitised"
    THEN [job EXCEPT !.status = "graded"]
    ELSE IF status = "completed" /\ job.status = "graded"
    THEN [job EXCEPT !.status = "finalised", !.completedDate = t]
    ELSE job

\* The jobs array after the linked job of `booking` (if any) is synced.
SyncLinkedJob(jobs, booking, status, t) ==
    LET i == FindJob(jobs, booking.jobId) IN
    IF booking.jobId # Unset /\ i # 0
    THEN [jobs EXCEPT ![i] = SyncJob(jobs[i], status, t)]
    ELSE jobs

\* Some job's completedDate was written between the two arrays.
JobStamped(before, after) ==
    \E i \in DOMAIN before : after[i].completedDate # before[i].completedDate

\* ----------------------------------------------- BookingService.updateBookingStatus
\* How the call ends: "ok", or the ApiErrorType thrown.  Both throws come
\* before the first assignment, so a call that throws changes nothing.
updateBookingStatusResult(bookingId, status) ==
    IF bookingId \notin DOMAIN mockBookings THEN "NOT_FOUND"
    ELSE IF InvalidTransition(mockBookings[bookingId].status, status)
    THEN "VALIDATION_ERROR"
    ELSE "ok"

\* The ApiError thrown for an invalid transition: its type, what its message
\* text names, and its details object (the fourth constructor argument).
updateBookingStatusError(bookingId, status) ==
    LET currentStatus == mockBookings[bookingId].status IN
    [ type |-> "VALIDATION_ERROR",
      message |-> [ currentStatus |-> currentStatus,
                    requestedStatus |-> status,
                    allowedNextStatuses |-> allowedNextStatuses(currentStatus) ],
      details |-> [ bookingId |-> bookingId,
                    currentStatus |-> currentStatus,
                    requestedStatus |-> status ] ]

\* The booking of id bookingId (one that resolves) once the call has ended;
\* t is the clock reading of "Set timestamps".
BookingAfterUpdateStatus(bookingId, status, t) ==
    IF updateBookingStatusResult(bookingId, status) # "ok"
    THEN mockBookings[bookingId]
    ELSE SetTimestamps([mockBookings[bookingId] EXCEPT !.status = status],
                       status, t)

\* The jobs array once the call has ended; t is the clock reading of the
\* job sync.
JobsAfterUpdateStatus(bookingId, status, t) ==
    IF updateBookingStatusResult(bookingId, status) # "ok"
    THEN mockJobs
    ELSE SyncLinkedJob(mockJobs, mockBookings[bookingId], status, t)

\* The booking's timestamp and the job's completedDate are two readings,
\* the second taken after the first; now moves to the last reading taken.
updateBookingStatusMock(bookingId, status) ==
    IF updateBookingStatusResult(bookingId, status) # "ok" THEN UNCHANGED vars
    ELSE
        \E t1 \in Readings(now) :
        LET booking == mockBookings[bookingId]
            currentStatus == booking.status
            moved == [booking EXCEPT !.status = status]
            stamped == BookingAfterUpdateStatus(bookingId, status, t1)
            after1 == IF stamped # moved THEN t1 ELSE now
        IN
        \E t2 \in Readings(after1) :
        LET jobs == JobsAfterUpdateStatus(bookingId, status, t2) IN
            /\ now' = IF JobStamped(mockJobs, jobs) THEN t2 ELSE after1
            /\ mockBookings' = [mockBookings EXCEPT ![bookingId] = stamped]
            /\ mockJobs' = jobs
            /\ hasCompleted' =
                 IF status = "completed" /\ currentStatus # "completed"
                 THEN hasCompleted \cup {bookingId}
                 ELSE hasCompleted
            /\ UNCHANGED << inFlight, mockCommissions, mockInvoices,
                            mockSanitisationRecords, mockGradingRecords >>

UpdateStatus ==
    \E bookingId \in RequestIds, status \in BookingStatus :
        updateBookingStatusMock(bookingId, status)

\* ------------------------------------------------------ BookingService.assignDriver
\* A variant of the pushed job that starts in booked.
NewJobBooked(bookingId, booking, t) ==
    [ id |-> t,
      bookingId |-> bookingId,
      status |-> "booked",
      completedDate |-> Unset,
      buybackValue |-> booking.estimatedBuyback ]

\* The job pushed by assignDriverMock for `booking` at clock value t.
NewJob(bookingId, booking, t) ==
    [ id |-> t,
      bookingId |-> bookingId,
      status |-> "routed",
      completedDate |-> Unset,
      buybackValue |-> booking.estimatedBuyback ]

\* A variant that pushes a new job at every assignment.
JobsAfterAssignAlways(jobs, bookingId, booking, t) ==
    Append(jobs, NewJob(bookingId, booking, t))

\* "Create a job for this booking (if not already created)".
JobsAfterAssign(jobs, bookingId, booking, t) ==
    IF booking.jobId = Unset
    THEN Append(jobs, NewJob(bookingId, booking, t))
    ELSE jobs

\* A variant of the status check that also lets a scheduled booking through.
assignDriverResultReassign(bookingId) ==
    IF bookingId \notin DOMAIN mockBookings THEN "NOT_FOUND"
    ELSE IF mockBookings[bookingId].status \notin {"created", "scheduled"}
    THEN "VALIDATION_ERROR"
    ELSE "ok"

\* How the call ends: "ok", or the ApiErrorType thrown (both throws come
\* before the first assignment).
assignDriverResult(bookingId) ==
    IF bookingId \notin DOMAIN mockBookings THEN "NOT_FOUND"
    ELSE IF mockBookings[bookingId].status # "created" THEN "VALIDATION_ERROR"
    ELSE "ok"

assignDriverMock(bookingId, driverId, scheduledBy) ==
    IF assignDriverResult(bookingId) # "ok" THEN UNCHANGED vars
    ELSE
        \E t1 \in Readings(now) : \E t2 \in Readings(t1) :
        LET booking == mockBookings[bookingId] IN
            \* scheduledAt is the first reading, the job id (Date.now()) the second
            /\ now' = IF booking.jobId = Unset THEN t2 ELSE t1
            /\ mockJobs' = JobsAfterAssign(mockJobs, bookingId, booking, t2)
            /\ mockBookings' =
                 [mockBookings EXCEPT ![bookingId] =
                    [booking EXCEPT !.status = "scheduled",
                                    !.driverId = driverId,
                                    !.scheduledBy = scheduledBy,
                                    !.scheduledAt = t1,
                                    !.jobId = IF booking.jobId = Unset THEN t2 ELSE @]]
            /\ UNCHANGED << inFlight, mockCommissions, mockInvoices, mockSanitisationRecords,
                            mockGradingRecords, hasCompleted >>

AssignDriver ==
    \E bookingId \in RequestIds, driverId \in DriverIds, scheduledBy \in Actors :
        assignDriverMock(bookingId, driverId, scheduledBy)

\* ---------------------------------------------------- BookingService.completeBooking
commissionPercent == 10

\* A variant of the commission amount that truncates instead of rounding.
CommissionAmountTruncated(booking) ==
    (booking.estimatedBuyback * commissionPercent) \div 100

\* Math.round(booking.estimatedBuyback * (commissionPercent / 100))
CommissionAmount(booking) ==
    MathRound(booking.estimatedBuyback * commissionPercent, 100)

\* "Auto-create commission if reseller exists"
CommissionsAfterComplete(commissions, bookingId, booking, t) ==
    IF booking.resellerId # "" /\ booking.resellerName # ""
    THEN Append(commissions,
                [ id |-> t,
                  bookingId |-> bookingId,
                  jobId |-> booking.jobId,
                  commissionPercent |-> commissionPercent,
                  jobValue |-> booking.estimatedBuyback,
                  commissionAmount |-> CommissionAmount(booking),
                  status |-> "pending",
                  paidDate |-> Unset ])
    ELSE commissions

RECURSIVE SumQuantity(_)
\* booking.assets.reduce((sum, a) => sum + a.quantity, 0)
SumQuantity(assets) ==
    IF assets = << >> THEN 0
    ELSE assets[1].quantity + SumQuantity(Tail(assets))

\* A variant of the unit price that truncates instead of rounding.
UnitPriceTruncated(booking) ==
    booking.estimatedBuyback \div SumQuantity(booking.assets)

\* Math.round(booking.estimatedBuyback / total quantity)
UnitPrice(booking) ==
    MathRound(booking.estimatedBuyback, SumQuantity(booking.assets))

\* "Create invoice items from booking assets"
InvoiceItems(booking) ==
    [ i \in DOMAIN booking.assets |->
        [ quantity |-> booking.assets[i].quantity,
          unitPrice |-> UnitPrice(booking),
          total |-> UnitPrice(booking) * booking.assets[i].quantity ] ]

RECURSIVE SumTotal(_)
\* items.reduce((sum, item) => sum + item.total, 0)
SumTotal(items) ==
    IF items = << >> THEN 0
    ELSE items[1].total + SumTotal(Tail(items))

\* Math.round(subtotal * 0.2)
Tax(subtotal) == MathRound(subtotal * 2, 10)

\* "Auto-create invoice".  The source's invoice carries jobId and clientId
\* but no booking id; bookingId here is a history field naming the booking
\* whose completion created the invoice.
NewInvoice(bookingId, booking, t) ==
    LET items == InvoiceItems(booking)
        subtotal == SumTotal(items)
    IN  [ id |-> t,
          bookingId |-> bookingId,
          jobId |-> booking.jobId,
          status |-> "draft",
          items |-> items,
          subtotal |-> subtotal,
          tax |-> Tax(subtotal),
          total |-> subtotal + Tax(subtotal) ]

\* A variant of the cascade that finalises the linked job whatever its status.
FinaliseLinkedJobAlways(jobs, booking, t) ==
    LET i == FindJob(jobs, booking.jobId) IN
    IF booking.jobId # Unset /\ i # 0
    THEN [jobs EXCEPT ![i] = [@ EXCEPT !.status = "finalised", !.completedDate = t]]
    ELSE jobs

\* The job cascade of completeBookingMock.
FinaliseLinkedJob(jobs, booking, t) ==
    LET i == FindJob(jobs, booking.jobId) IN
    IF booking.jobId # Unset /\ i # 0 /\ jobs[i].status = "graded"
    THEN [jobs EXCEPT ![i] = [@ EXCEPT !.status = "finalised", !.completedDate = t]]
    ELSE jobs

\* A variant of the status check that also lets a sanitised booking through.
completeBookingResultFromSanitised(bookingId) ==
    IF bookingId \notin DOMAIN mockBookings THEN "NOT_FOUND"
    ELSE IF mockBookings[bookingId].status \notin {"sanitised", "graded"}
    THEN "VALIDATION_ERROR"
    ELSE "ok"

\* A variant of the status check that also lets a completed booking through.
completeBookingResultRepeatable(bookingId) ==
    IF bookingId \notin DOMAIN mockBookings THEN "NOT_FOUND"
    ELSE IF mockBookings[bookingId].status \notin {"graded", "completed"}
    THEN "VALIDATION_ERROR"
    ELSE "ok"

\* How the call ends: "ok", or the ApiErrorType thrown (both throws come
\* before the first assignment).
completeBookingResult(bookingId) ==
    IF bookingId \notin DOMAIN mockBookings THEN "NOT_FOUND"
    ELSE IF mockBookings[bookingId].status # "graded" THEN "VALIDATION_ERROR"
    ELSE "ok"

\* completeBookingMock is an async function: it runs without interruption
\* from one await to the next, and other calls run while it is suspended.
\* Each action below is one such stretch of the call in slot c.

\* completeBooking is called and runs to `await delay(800)`.
CompleteCall(c, awaited) ==
    \E bookingId \in RequestIds :
        /\ inFlight[c].pc = "idle"
        /\ Len(mockCommissions) < MaxCreated
        /\ Len(mockInvoices) < MaxCreated
        /\ inFlight' =
             [inFlight EXCEPT ![c] =
                [NotCalled EXCEPT !.op = "completeBooking", !.pc = "delay",
                                  !.bookingId = bookingId, !.awaited = awaited]]
        /\ UNCHANGED << mockBookings, mockJobs, mockCommissions, mockInvoices,
                        mockSanitisationRecords, mockGradingRecords, now,
                        hasCompleted >>

\* From the delay to the first `await import('@/mocks/mock-entities')`: the
\* booking is looked up and its status checked (a throw rejects the call),
\* then the booking and the linked job are written.  Without a reseller the
\* first import reached is the one of the invoice block.  completedAt and
\* the job's completedDate are two readings of the clock.
CompleteCheck(c) ==
    LET bookingId == inFlight[c].bookingId
        result == completeBookingResult(bookingId)
    IN
    /\ inFlight[c].op = "completeBooking"
    /\ inFlight[c].pc = "delay"
    /\ IF result # "ok"
       THEN /\ inFlight' = Settle(c, "none", result)
            /\ UNCHANGED << mockBookings, mockJobs, now, hasCompleted >>
       ELSE \E t1 \in Readings(now) : \E t2 \in Readings(t1) :
            LET booking == mockBookings[bookingId]
                jobs == FinaliseLinkedJob(mockJobs, booking, t2)
            IN
            /\ now' = IF JobStamped(mockJobs, jobs) THEN t2 ELSE t1
            /\ mockBookings' =
                 [mockBookings EXCEPT ![bookingId] =
                    [booking EXCEPT !.status = "completed", !.completedAt = t1]]
            /\ mockJobs' = jobs
            /\ hasCompleted' = hasCompleted \cup {bookingId}
            /\ inFlight' =
                 [inFlight EXCEPT ![c].pc =
                    IF booking.resellerId # "" /\ booking.resellerName # ""
                    THEN "import-commission" ELSE "import-invoice"]
    /\ UNCHANGED << mockCommissions, mockInvoices, mockSanitisationRecords,
                    mockGradingRecords >>

\* From the import of the commission block to the import of the invoice
\* block: the commission is built from the booking as it is now, its id
\* from a reading of the clock, and pushed.
CompleteCommission(c) ==
    LET bookingId == inFlight[c].bookingId IN
    /\ inFlight[c].op = "completeBooking"
    /\ inFlight[c].pc = "import-commission"
    /\ \E t \in Readings(now) :
          /\ now' = t
          /\ mockCommissions' =
               CommissionsAfterComplete(mockCommissions, bookingId,
                                        mockBookings[bookingId], t)
    /\ inFlight' = [inFlight EXCEPT ![c].pc = "import-invoice"]
    /\ UNCHANGED << mockBookings, mockJobs, mockInvoices, mockSanitisationRecords,
                    mockGradingRecords, hasCompleted >>

\* From the import of the invoice block to the return: the invoice is built
\* from the booking as it is now, its id from a reading of the clock, and
\* pushed.
CompleteInvoice(c) ==
    LET bookingId == inFlight[c].bookingId IN
    /\ inFlight[c].op = "completeBooking"
    /\ inFlight[c].pc = "import-invoice"
    /\ \E t \in Readings(now) :
          /\ now' = t
          /\ mockInvoices' =
               Append(mockInvoices, NewInvoice(bookingId, mockBookings[bookingId], t))
    /\ inFlight' = Settle(c, "none", "ok")
    /\ UNCHANGED << mockBookings, mockJobs, mockCommissions,
                    mockSanitisationRecords, mockGradingRecords, hasCompleted >>

\* The dynamic import of the commission block or of the invoice block
\* throws: the catch block of that try logs, nothing is pushed, and the call
\* goes on to the invoice block or returns the booking.
CompleteImportFails(c) ==
    /\ inFlight[c].op = "completeBooking"
    /\ inFlight[c].pc \in {"import-commission", "import-invoice"}
    /\ inFlight' =
         IF inFlight[c].pc = "import-commission"
         THEN [inFlight EXCEPT ![c].pc = "import-invoice"]
         ELSE Settle(c, "none", "ok")
    /\ UNCHANGED << mockBookings, mockJobs, mockCommissions, mockInvoices,
                    mockSanitisationRecords, mockGradingRecords, now,
                    hasCompleted >>

\* ------------------------------------- SanitisationService.createSanitisationRecord
\* Records created so far by the two record services.
RecordsAdded ==
    (Len(mockSanitisationRecords) - Len(InitialRecords))
      + (Len(mockGradingRecords) - Len(InitialRecords))

\* The record a call creates (the fields the services read back).
NewRecord(bookingId, assetId) == [bookingId |-> bookingId, assetId |-> assetId]

\* A variant of the push that merges the new record into an existing record
\* of the same booking and category instead of appending it.
RecordsAfterPushMerged(records, bookingId, assetId) ==
    IF \E k \in DOMAIN records : records[k] = NewRecord(bookingId, assetId)
    THEN records
    ELSE Append(records, NewRecord(bookingId, assetId))

\* mockSanitisationRecords.push(newRecord) / mockGradingRecords.push(newRecord)
RecordsAfterPush(records, bookingId, assetId) ==
    Append(records, NewRecord(bookingId, assetId))

\* new Set(bookingRecords.map(r => r.assetId)) over the records of bookingId
CoveredAssetIds(records, bookingId) ==
    { records[i].assetId : i \in { k \in DOMAIN records : records[k].bookingId = bookingId } }

\* A variant of the coverage that leaves out the newest record, as if the
\* coverage were evaluated before the call's own push.
AllAssetsCoveredBeforePush(booking, records, bookingId) ==
    \A i \in DOMAIN booking.assets :
        booking.assets[i].categoryId
            \in CoveredAssetIds(SubSeq(records, 1, Len(records) - 1), bookingId)

\* booking.assets.every(asset => ids.has(asset.categoryId))
AllAssetsCovered(booking, records, bookingId) ==
    \A i \in DOMAIN booking.assets :
        booking.assets[i].categoryId \in CoveredAssetIds(records, bookingId)

\* A variant of the guard that does not look at the booking's status.
SanitisationAdvancesAnyStatus(booking, records, bookingId) ==
    AllAssetsCovered(booking, records, bookingId)

\* The guard of the sanitisation cascade.
SanitisationAdvances(booking, records, bookingId) ==
    AllAssetsCovered(booking, records, bookingId) /\ booking.status = "collected"

\* The linked job after the record services' cascade from `fromStatus` to `toStatus`.
CascadeLinkedJob(jobs, booking, fromStatus, toStatus) ==
    LET i == FindJob(jobs, booking.jobId) IN
    IF booking.jobId # Unset /\ i # 0 /\ jobs[i].status = fromStatus
    THEN [jobs EXCEPT ![i] = [@ EXCEPT !.status = toStatus]]
    ELSE jobs

\* createSanitisationRecordMock is an async function; each action below is one
\* stretch of the call in slot c between two awaits.

\* createSanitisationRecord is called and runs to `await delay(1000)`.
SanitisationCall(c, awaited) ==
    \E bookingId \in RequestIds, assetId \in Categories :
        /\ inFlight[c].pc = "idle"
        /\ inFlight' =
             [inFlight EXCEPT ![c] =
                [NotCalled EXCEPT !.op = "createSanitisationRecord", !.pc = "delay",
                                  !.bookingId = bookingId, !.assetId = assetId,
                                  !.awaited = awaited]]
        /\ UNCHANGED << mockBookings, mockJobs, mockCommissions, mockInvoices,
                        mockSanitisationRecords, mockGradingRecords, now,
                        hasCompleted >>

\* From the delay to `await import('@/mocks/mock-entities')`: the record is
\* built and pushed.
SanitisationPush(c) ==
    /\ inFlight[c].op = "createSanitisationRecord"
    /\ inFlight[c].pc = "delay"
    /\ RecordsAdded < MaxRecords
    /\ mockSanitisationRecords' =
         RecordsAfterPush(mockSanitisationRecords, inFlight[c].bookingId, inFlight[c].assetId)
    /\ inFlight' = [inFlight EXCEPT ![c].pc = "import-entities"]
    /\ UNCHANGED << mockBookings, mockJobs, mockCommissions, mockInvoices,
                    mockGradingRecords, now, hasCompleted >>

\* From that import to `await import('@/mocks/mock-data')`, or to the return
\* when the booking is not found, the cascade does not run or the booking has
\* no job: the coverage is computed from the records as they are now, and
\* the booking is written.
\* observed is the local allAssetsSanitised.
SanitisationCheck(c) ==
    LET bookingId == inFlight[c].bookingId
        booking == mockBookings[bookingId]
        observed ==
            IF AllAssetsCovered(booking, mockSanitisationRecords, bookingId)
            THEN "complete" ELSE "incomplete"
        advances == SanitisationAdvances(booking, mockSanitisationRecords, bookingId)
    IN
    /\ inFlight[c].op = "createSanitisationRecord"
    /\ inFlight[c].pc = "import-entities"
    /\ IF bookingId \notin DOMAIN mockBookings
       THEN /\ inFlight' = Settle(c, "none", "ok")
            /\ UNCHANGED << mockBookings, now >>
       ELSE /\ IF advances
               THEN \E t \in Readings(now) :
                      /\ now' = t
                      /\ mockBookings' =
                           [mockBookings EXCEPT ![bookingId] =
                              [@ EXCEPT !.status = "sanitised", !.sanitisedAt = t]]
               ELSE UNCHANGED << mockBookings, now >>
            /\ inFlight' =
                 IF advances /\ booking.jobId # Unset
                 THEN [inFlight EXCEPT ![c].pc = "import-data",
                                       ![c].observed = observed]
                 ELSE Settle(c, observed, "ok")
    /\ UNCHANGED << mockJobs, mockCommissions, mockInvoices,
                    mockSanitisationRecords, mockGradingRecords, hasCompleted >>

\* From the import of mock-data to the return: the linked job, as it is now,
\* is written.
SanitisationJobWrite(c) ==
    /\ inFlight[c].op = "createSanitisationRecord"
    /\ inFlight[c].pc = "import-data"
    /\ mockJobs' =
         CascadeLinkedJob(mockJobs, mockBookings[inFlight[c].bookingId],
                          "warehouse", "sanitised")
    /\ inFlight' = Settle(c, inFlight[c].observed, "ok")
    /\ UNCHANGED << mockBookings, mockCommissions, mockInvoices,
                    mockSanitisationRecords, mockGradingRecords, now,
                    hasCompleted >>

\* A dynamic import of the try block throws: the catch block logs, what is
\* left of the cascade is skipped and the call returns its record.
SanitisationImportFails(c) ==
    /\ inFlight[c].op = "createSanitisationRecord"
    /\ inFlight[c].pc \in {"import-entities", "import-data"}
    /\ inFlight' = Settle(c, inFlight[c].observed, "ok")
    /\ UNCHANGED << mockBookings, mockJobs, mockCommissions, mockInvoices,
                    mockSanitisationRecords, mockGradingRecords, now,
                    hasCompleted >>

\* --------------------------------------------- GradingService.createGradingRecord
\* A variant of the guard that does not look at the booking's status.
GradingAdvancesAnyStatus(booking, records, bookingId) ==
    AllAssetsCovered(booking, records, bookingId)

\* The guard of the grading cascade.
GradingAdvances(booking, records, bookingId) ==
    AllAssetsCovered(booking, records, bookingId) /\ booking.status = "sanitised"

\* createGradingRecordMock is an async function; each action below is one
\* stretch of the call in slot c between two awaits.

\* createGradingRecord is called and runs to `await delay(800)`.
GradingCall(c, awaited) ==
    \E bookingId \in RequestIds, assetId \in Categories :
        /\ inFlight[c].pc = "idle"
        /\ inFlight' =
             [inFlight EXCEPT ![c] =
                [NotCalled EXCEPT !.op = "createGradingRecord", !.pc = "delay",
                                  !.bookingId = bookingId, !.assetId = assetId,
                                  !.awaited = awaited]]
        /\ UNCHANGED << mockBookings, mockJobs, mockCommissions, mockInvoices,
                        mockSanitisationRecords, mockGradingRecords, now,
                        hasCompleted >>

\* From the delay to `await import('@/mocks/mock-entities')`: the record is
\* built and pushed.
GradingPush(c) ==
    /\ inFlight[c].op = "createGradingRecord"
    /\ inFlight[c].pc = "delay"
    /\ RecordsAdded < MaxRecords
    /\ mockGradingRecords' =
         RecordsAfterPush(mockGradingRecords, inFlight[c].bookingId, inFlight[c].assetId)
    /\ inFlight' = [inFlight EXCEPT ![c].pc = "import-entities"]
    /\ UNCHANGED << mockBookings, mockJobs, mockCommissions, mockInvoices,
                    mockSanitisationRecords, now, hasCompleted >>

\* From that import to `await import('@/mocks/mock-data')`, or to the return
\* when the booking is not found, the cascade does not run or the booking has
\* no job: the coverage is computed from the records as they are now, and
\* the booking is written.
\* observed is the local allAssetsGraded.
GradingCheck(c) ==
    LET bookingId == inFlight[c].bookingId
        booking == mockBookings[bookingId]
        observed ==
            IF AllAssetsCovered(booking, mockGradingRecords, bookingId)
            THEN "complete" ELSE "incomplete"
        advances == GradingAdvances(booking, mockGradingRecords, bookingId)
    IN
    /\ inFlight[c].op = "createGradingRecord"
    /\ inFlight[c].pc = "import-entities"
    /\ IF bookingId \notin DOMAIN mockBookings
       THEN /\ inFlight' = Settle(c, "none", "ok")
            /\ UNCHANGED << mockBookings, now >>
       ELSE /\ IF advances
               THEN \E t \in Readings(now) :
                      /\ now' = t
                      /\ mockBookings' =
                           [mockBookings EXCEPT ![bookingId] =
                              [@ EXCEPT !.status = "graded", !.gradedAt = t]]
               ELSE UNCHANGED << mockBookings, now >>
            /\ inFlight' =
                 IF advances /\ booking.jobId # Unset
                 THEN [inFlight EXCEPT ![c].pc = "import-data",
                                       ![c].observed = observed]
                 ELSE Settle(c, observed, "ok")
    /\ UNCHANGED << mockJobs, mockCommissions, mockInvoices,
                    mockSanitisationRecords, mockGradingRecords, hasCompleted >>

\* From the import of mock-data to the return: the linked job, as it is now,
\* is written.
GradingJobWrite(c) ==
    /\ inFlight[c].op = "createGradingRecord"
    /\ inFlight[c].pc = "import-data"
    /\ mockJobs' =
         CascadeLinkedJob(mockJobs, mockBookings[inFlight[c].bookingId],
                          "sanitised", "graded")
    /\ inFlight' = Settle(c, inFlight[c].observed, "ok")
    /\ UNCHANGED << mockBookings, mockCommissions, mockInvoices,
                    mockSanitisationRecords, mockGradingRecords, now,
                    hasCompleted >>

\* A dynamic import of the try block throws: the catch block logs, what is
\* left of the cascade is skipped and the call returns its record.
GradingImportFails(c) ==
    /\ inFlight[c].op = "createGradingRecord"
    /\ inFlight[c].pc \in {"import-entities", "import-data"}
    /\ inFlight' = Settle(c, inFlight[c].observed, "ok")
    /\ UNCHANGED << mockBookings, mockJobs, mockCommissions, mockInvoices,
                    mockSanitisationRecords, mockGradingRecords, now,
                    hasCompleted >>

\* ------------------------------------- CommissionService.updateCommissionStatus
\* mockCommissions.find(c => c.id === commissionId): index of the first
\* match, 0 if none.
FindCommission(commissions, commissionId) ==
    IF \E i \in DOMAIN commissions : commissions[i].id = commissionId
    THEN CHOOSE i \in DOMAIN commissions :
            /\ commissions[i].id = commissionId
            /\ \A k \in DOMAIN commissions : commissions[k].id = commissionId => i <= k
    ELSE 0

\* validTransitions of updateCommissionStatusMock
commissionValidTransitions ==
    [ s \in CommissionStatus |->
        CASE s = "pending" -> {"approved"}
          [] s = "approved" -> {"paid"}
          [] s = "paid" -> {} ]

\* validTransitions[currentStatus] || []
commissionAllowedNextStatuses(currentStatus) ==
    IF currentStatus \in DOMAIN commissionValidTransitions
    THEN commissionValidTransitions[currentStatus]
    ELSE {}

\* The condition under which updateCommissionStatusMock throws VALIDATION_ERROR.
InvalidCommissionTransition(currentStatus, status) ==
    /\ status # currentStatus
    /\ commissionAllowedNextStatuses(currentStatus) # {}
    /\ status \notin commissionAllowedNextStatuses(currentStatus)

\* How the call ends: "ok", or the ApiErrorType thrown (both throws come
\* before the first assignment).
updateCommissionStatusResult(commissionId, status) ==
    LET i == FindCommission(mockCommissions, commissionId) IN
    IF i = 0 THEN "NOT_FOUND"
    ELSE IF InvalidCommissionTransition(mockCommissions[i].status, status)
    THEN "VALIDATION_ERROR"
    ELSE "ok"

\* The ApiError thrown for an invalid transition; it is constructed without
\* a details object.
NoDetails == [f \in {} |-> Unset]

\* A variant of the error whose message names the current and the requested
\* status only.
updateCommissionStatusErrorBare(commissionId, status) ==
    LET currentStatus ==
          mockCommissions[FindCommission(mockCommissions, commissionId)].status
    IN  [ type |-> "VALIDATION_ERROR",
          message |-> [ currentStatus |-> currentStatus,
                        requestedStatus |-> status,
                        allowedNextStatuses |-> {} ],
          details |-> NoDetails ]

updateCommissionStatusError(commissionId, status) ==
    LET currentStatus ==
          mockCommissions[FindCommission(mockCommissions, commissionId)].status
    IN  [ type |-> "VALIDATION_ERROR",
          message |-> [ currentStatus |-> currentStatus,
                        requestedStatus |-> status,
                        allowedNextStatuses |->
                            commissionAllowedNextStatuses(currentStatus) ],
          details |-> NoDetails ]

\* A variant that stamps the paid date at every request for paid.
PaidDateAfterAlways(commission, status, t) ==
    IF status = "paid" THEN t ELSE commission.paidDate

\* "Set paid date if moving to paid"
PaidDateAfter(commission, status, t) ==
    IF status = "paid" /\ commission.paidDate = Unset
    THEN t
    ELSE commission.paidDate

\* The commission found by the call, once the call has ended; t is the clock
\* reading of "Set paid date".
CommissionAfterUpdateStatus(commissionId, status, t) ==
    LET commission == mockCommissions[FindCommission(mockCommissions, commissionId)] IN
    IF updateCommissionStatusResult(commissionId, status) # "ok"
    THEN commission
    ELSE [commission EXCEPT !.status = status,
                            !.paidDate = PaidDateAfter(commission, status, t)]

updateCommissionStatusMock(commissionId, status) ==
    IF updateCommissionStatusResult(commissionId, status) # "ok" THEN UNCHANGED vars
    ELSE
        \E t \in Readings(now) :
        LET i == FindCommission(mockCommissions, commissionId)
            after == CommissionAfterUpdateStatus(commissionId, status, t)
        IN
            /\ now' = IF after.paidDate # mockCommissions[i].paidDate THEN t ELSE now
            /\ mockCommissions' = [mockCommissions EXCEPT ![i] = after]
            /\ UNCHANGED << inFlight, mockBookings, mockJobs, mockInvoices,
                            mockSanitisationRecords, mockGradingRecords,
                            hasCompleted >>

UpdateCommissionStatus ==
    \E commissionId \in CommissionIds, status \in CommissionStatus :
        updateCommissionStatusMock(commissionId, status)

\* ------------------------------------------- InvoicesService.updateInvoiceStatus
\* mockInvoices.find(i => i.id === invoiceId): index of the first match, 0 if none.
FindInvoice(invoices, invoiceId) ==
    IF \E i \in DOMAIN invoices : invoices[i].id = invoiceId
    THEN CHOOSE i \in DOMAIN invoices :
            /\ invoices[i].id = invoiceId
            /\ \A k \in DOMAIN invoices : invoices[k].id = invoiceId => i <= k
    ELSE 0

\* validTransitions of updateInvoiceStatusMock
invoiceValidTransitions ==
    [ s \in InvoiceStatus |->
        CASE s = "draft" -> {"sent", "cancelled"}
          [] s = "sent" -> {"paid", "overdue", "cancelled"}
          [] s = "paid" -> {"cancelled"}
          [] s = "overdue" -> {"paid", "cancelled"}
          [] s = "cancelled" -> {} ]

\* validTransitions[currentStatus] || []
invoiceAllowedNextStatuses(currentStatus) ==
    IF currentStatus \in DOMAIN invoiceValidTransitions
    THEN invoiceValidTransitions[currentStatus]
    ELSE {}

\* The condition under which updateInvoiceStatusMock throws VALIDATION_ERROR
\* for a status other than cancelled.
InvalidInvoiceTransition(currentStatus, status) ==
    /\ status # currentStatus
    /\ invoiceAllowedNextStatuses(currentStatus) # {}
    /\ status \notin invoiceAllowedNextStatuses(currentStatus)

\* How the call ends: "ok", or the ApiErrorType thrown.  A request for
\* cancelled returns before the transition check ("Allow cancelling from
\* any status").
updateInvoiceStatusResult(invoiceId, status) ==
    LET i == FindInvoice(mockInvoices, invoiceId) IN
    IF i = 0 THEN "NOT_FOUND"
    ELSE IF status = "cancelled" THEN "ok"
    ELSE IF InvalidInvoiceTransition(mockInvoices[i].status, status)
    THEN "VALIDATION_ERROR"
    ELSE "ok"

\* The ApiError thrown for an invalid transition: its message lists the
\* allowed next statuses "or cancelled".
updateInvoiceStatusError(invoiceId, status) ==
    LET currentStatus == mockInvoices[FindInvoice(mockInvoices, invoiceId)].status IN
    [ type |-> "VALIDATION_ERROR",
      message |-> [ currentStatus |-> currentStatus,
                    requestedStatus |-> status,
                    allowedNextStatuses |->
                        invoiceAllowedNextStatuses(currentStatus) \cup {"cancelled"} ],
      details |-> [ invoiceId |-> invoiceId,
                    currentStatus |-> currentStatus,
                    requestedStatus |-> status ] ]

\* The invoice found by the call, once the call has ended.
InvoiceAfterUpdateStatus(invoiceId, status) ==
    LET invoice == mockInvoices[FindInvoice(mockInvoices, invoiceId)] IN
    IF updateInvoiceStatusResult(invoiceId, status) # "ok"
    THEN invoice
    ELSE [invoice EXCEPT !.status = status]

updateInvoiceStatusMock(invoiceId, status) ==
    IF updateInvoiceStatusResult(invoiceId, status) # "ok" THEN UNCHANGED vars
    ELSE
        LET i == FindInvoice(mockInvoices, invoiceId) IN
            /\ mockInvoices' =
                 [mockInvoices EXCEPT ![i] = InvoiceAfterUpdateStatus(invoiceId, status)]
            /\ UNCHANGED << inFlight, mockBookings, mockJobs, mockCommissions,
                            mockSanitisationRecords, mockGradingRecords,
                            now, hasCompleted >>

UpdateInvoiceStatus ==
    \E invoiceId \in InvoiceIds, status \in InvoiceStatus :
        updateInvoiceStatusMock(invoiceId, status)

\* ------------------------------------------------------------- job-helpers.ts
\* A job argument of null or undefined.
NoJob == [null |-> TRUE]

\* normalizeStatusForCheck: en_route and en-route are one status.
normalizeStatusForCheck(status) ==
    IF status = "en-route" \/ status = "en_route" THEN "en-route" ELSE status

\* editableStatuses of canDriverEditJob
editableStatuses == {"routed", "en-route", "arrived", "collected"}

\* canDriverEditJob(job)
canDriverEditJob(job) ==
    IF job = NoJob THEN FALSE
    ELSE normalizeStatusForCheck(job.status) \in editableStatuses

\* ------------------------------------------------------- job service (driver side)
\* A variant of the driver's table in which the driver may take a job from
\* warehouse on to sanitised.
driverTransitionsBeyondWarehouse ==
    { << "booked", "routed" >>, << "booked", "en-route" >>,
      << "routed", "en-route" >>, << "en-route", "arrived" >>,
      << "arrived", "collected" >>, << "collected", "warehouse" >>,
      << "warehouse", "sanitised" >> }

\* jobs.service.ts is not part of the sources; the driver-side transitions
\* are taken from the job workflow table: the driver advances the job one
\* stage at a time from routed to warehouse (or from booked straight to
\* en-route), and a job reaching collected takes a scheduled booking along.
driverTransitions ==
    { << "booked", "routed" >>, << "booked", "en-route" >>,
      << "routed", "en-route" >>, << "en-route", "arrived" >>,
      << "arrived", "collected" >>, << "collected", "warehouse" >> }

\* A variant of the job-to-booking sync that sets the booking to collected
\* whatever status it is in.
updateJobStatusForced(jobId, status) ==
    LET i == FindJob(mockJobs, jobId) IN
    /\ i # 0
    /\ << mockJobs[i].status, status >> \in driverTransitions
    /\ mockJobs' = [mockJobs EXCEPT ![i] = [@ EXCEPT !.status = status]]
    /\ LET bookingId == mockJobs[i].bookingId IN
       mockBookings' =
         IF status = "collected" /\ bookingId \in DOMAIN mockBookings
         THEN [mockBookings EXCEPT ![bookingId] = [@ EXCEPT !.status = "collected"]]
         ELSE mockBookings
    /\ UNCHANGED << inFlight, mockCommissions, mockInvoices, mockSanitisationRecords,
                    mockGradingRecords, now, hasCompleted >>

updateJobStatus(jobId, status) ==
    LET i == FindJob(mockJobs, jobId) IN
    /\ i # 0
    /\ << mockJobs[i].status, status >> \in driverTransitions
    /\ mockJobs' = [mockJobs EXCEPT ![i] = [@ EXCEPT !.status = status]]
    /\ LET bookingId == mockJobs[i].bookingId IN
       mockBookings' =
         IF /\ status = "collected"
            /\ bookingId \in DOMAIN mockBookings
            /\ mockBookings[bookingId].status = "scheduled"
         THEN [mockBookings EXCEPT ![bookingId] = [@ EXCEPT !.status = "collected"]]
         ELSE mockBookings
    /\ UNCHANGED << inFlight, mockCommissions, mockInvoices, mockSanitisationRecords,
                    mockGradingRecords, now, hasCompleted >>

DriverUpdate ==
    \E i \in DOMAIN mockJobs, status \in WorkflowStatus :
        updateJobStatus(mockJobs[i].id, status)

\* The slots the sequential specifications use: one call of completeBooking
\* or of a record service at a time, whose stretches interleave with the
\* handlers that have no await after their delay.
Callers == {"call-1"}

Next ==
    \/ UpdateStatus
    \/ AssignDriver
    \/ DriverUpdate
    \/ \E c \in Callers : CompleteCall(c, FALSE)
    \/ \E c \in Callers : CompleteCheck(c)
    \/ \E c \in Callers : CompleteCommission(c)
    \/ \E c \in Callers : CompleteInvoice(c)
    \/ \E c \in Callers : CompleteImportFails(c)

Spec == Init /\ [][Next]_vars

\* ------------------------------------------- completion arithmetic, enumerated
\* Line items of one or two categories with every quantity up to MaxQuantity.
PricingAssetLists ==
    { << [categoryId |-> "laptop", quantity |-> q] >> : q \in 1..MaxQuantity }
      \cup
    { << [categoryId |-> "laptop", quantity |-> q[1]],
         [categoryId |-> "monitor", quantity |-> q[2]] >> :
        q \in (1..MaxQuantity) \X (1..MaxQuantity) }

\* A booking that updateBookingStatus has taken from created to graded
\* (sanitisedAt and gradedAt both stamped at clock value 1, no driver
\* assigned), for every line-item list, reseller combination and
\* estimatedBuyback of the enumeration.
GradedBooking(assets, reseller, buyback) ==
    [ NewBooking(assets, reseller, buyback) EXCEPT
        !.status = "graded", !.sanitisedAt = 1, !.gradedAt = 1 ]

PricingInit ==
    /\ mockBookings \in
         [BookingIds -> { GradedBooking(a, r, v) :
                            a \in PricingAssetLists, r \in Resellers,
                            v \in 0..MaxBuyback }]
    /\ mockJobs = << >>
    /\ mockCommissions = << >>
    /\ mockInvoices = << >>
    /\ mockSanitisationRecords = InitialRecords
    /\ mockGradingRecords = InitialRecords
    /\ now = 1
    /\ hasCompleted = {}
    /\ inFlight = NoCalls

PricingNext ==
    \/ \E c \in Callers : CompleteCall(c, FALSE)
    \/ \E c \in Callers : CompleteCheck(c)
    \/ \E c \in Callers : CompleteCommission(c)
    \/ \E c \in Callers : CompleteInvoice(c)
    \/ \E c \in Callers : CompleteImportFails(c)

PricingSpec == PricingInit /\ [][PricingNext]_vars

\* --------------------------------------------------- the life of a commission
\* updateCommissionStatus writes a commission's status and paidDate and
\* nothing else, and no booking-side handler reads either field, so the
\* commission service is explored next to the two handlers that lead to a
\* commission, from a booking that updateBookingStatus has taken to graded.
CommissionInit ==
    /\ mockBookings \in
         [BookingIds -> { GradedBooking(a, r, v) :
                            a \in AssetLists, r \in Resellers, v \in Buybacks }]
    /\ mockJobs = << >>
    /\ mockCommissions = << >>
    /\ mockInvoices = << >>
    /\ mockSanitisationRecords = InitialRecords
    /\ mockGradingRecords = InitialRecords
    /\ now = 1
    /\ hasCompleted = {}
    /\ inFlight = NoCalls

CommissionNext ==
    \/ UpdateStatus
    \/ \E c \in Callers : CompleteCall(c, FALSE)
    \/ \E c \in Callers : CompleteCheck(c)
    \/ \E c \in Callers : CompleteCommission(c)
    \/ \E c \in Callers : CompleteInvoice(c)
    \/ \E c \in Callers : CompleteImportFails(c)
    \/ UpdateCommissionStatus

CommissionSpec == CommissionInit /\ [][CommissionNext]_vars

\* ------------------------------------ record creation with a failing cascade
\* A booking that assignDriver has scheduled at clock value 1 and that the
\* driver has collected and delivered: status collected, job in warehouse.
CollectedBooking(assets, reseller, buyback) ==
    [ NewBooking(assets, reseller, buyback) EXCEPT
        !.status = "collected", !.driverId = "d1", !.scheduledBy = "admin-1",
        !.scheduledAt = 1, !.jobId = 1 ]

RecordInit ==
    /\ \E a \in AssetLists, r \in Resellers, v \in Buybacks :
          /\ mockBookings = [b \in BookingIds |-> CollectedBooking(a, r, v)]
          /\ mockJobs =
               << [ NewJob("b1", CollectedBooking(a, r, v), 1) EXCEPT
                      !.status = "warehouse" ] >>
    /\ mockCommissions = << >>
    /\ mockInvoices = << >>
    /\ mockSanitisationRecords = InitialRecords
    /\ mockGradingRecords = InitialRecords
    /\ now = 1
    /\ hasCompleted = {}
    /\ inFlight = NoCalls

RecordNext ==
    \/ UpdateStatus
    \/ \E c \in Callers : SanitisationCall(c, FALSE)
    \/ \E c \in Callers : SanitisationPush(c)
    \/ \E c \in Callers : SanitisationCheck(c)
    \/ \E c \in Callers : SanitisationJobWrite(c)
    \/ \E c \in Callers : SanitisationImportFails(c)
    \/ \E c \in Callers : GradingCall(c, FALSE)
    \/ \E c \in Callers : GradingPush(c)
    \/ \E c \in Callers : GradingCheck(c)
    \/ \E c \in Callers : GradingJobWrite(c)
    \/ \E c \in Callers : GradingImportFails(c)

RecordSpec == RecordInit /\ [][RecordNext]_vars

\* ------------------------------------------- every writer of a job's status
\* The handlers that write a job's status, all together: the driver's
\* updates, assignDriver, updateBookingStatus and the stretches of
\* completeBooking and of the two record services, failing imports
\* included, from a booking of one category with a reseller that
\* assignDriver has scheduled at clock value 1: status scheduled, job in
\* routed.  The clock has since reached its cap, so that every reading is
\* MaxTime: no writer of a job's status looks at a timestamp.
ScheduledBooking ==
    [ NewBooking(<< [categoryId |-> "laptop", quantity |-> 1] >>,
                 [id |-> "r1", name |-> "Reseller One"], 1005) EXCEPT
        !.status = "scheduled", !.driverId = "d1", !.scheduledBy = "admin-1",
        !.scheduledAt = 1, !.jobId = 1 ]

CascadeInit ==
    /\ mockBookings = [b \in BookingIds |-> ScheduledBooking]
    /\ mockJobs = << NewJob("b1", ScheduledBooking, 1) >>
    /\ mockCommissions = << >>
    /\ mockInvoices = << >>
    /\ mockSanitisationRecords = InitialRecords
    /\ mockGradingRecords = InitialRecords
    /\ now = MaxTime
    /\ hasCompleted = {}
    /\ inFlight = NoCalls

CascadeNext ==
    \/ UpdateStatus
    \/ AssignDriver
    \/ DriverUpdate
    \/ \E c \in Callers : CompleteCall(c, FALSE)
    \/ \E c \in Callers : CompleteCheck(c)
    \/ \E c \in Callers : CompleteCommission(c)
    \/ \E c \in Callers : CompleteInvoice(c)
    \/ \E c \in Callers : CompleteImportFails(c)
    \/ \E c \in Callers : SanitisationCall(c, FALSE)
    \/ \E c \in Callers : SanitisationPush(c)
    \/ \E c \in Callers : SanitisationCheck(c)
    \/ \E c \in Callers : SanitisationJobWrite(c)
    \/ \E c \in Callers : SanitisationImportFails(c)
    \/ \E c \in Callers : GradingCall(c, FALSE)
    \/ \E c \in Callers : GradingPush(c)
    \/ \E c \in Callers : GradingCheck(c)
    \/ \E c \in Callers : GradingJobWrite(c)
    \/ \E c \in Callers : GradingImportFails(c)

CascadeSpec == CascadeInit /\ [][CascadeNext]_vars

\* ------------------------------------------------------- the driver's stages
\* A booking that came with a job in booked (a job of the initial data,
\* created before a driver was assigned): status created, jobId set.
BookedBooking(assets, reseller, buyback) ==
    [ NewBooking(assets, reseller, buyback) EXCEPT !.jobId = 1 ]

DriverInit ==
    /\ \E a \in AssetLists, r \in Resellers, v \in Buybacks :
          /\ mockBookings = [b \in BookingIds |-> BookedBooking(a, r, v)]
          /\ mockJobs =
               << [ NewJob("b1", BookedBooking(a, r, v), 1) EXCEPT
                      !.status = "booked" ] >>
    /\ mockCommissions = << >>
    /\ mockInvoices = << >>
    /\ mockSanitisationRecords = InitialRecords
    /\ mockGradingRecords = InitialRecords
    /\ now = 1
    /\ hasCompleted = {}
    /\ inFlight = NoCalls

DriverNext ==
    \/ AssignDriver
    \/ DriverUpdate
    \/ UpdateStatus

DriverSpec == DriverInit /\ [][DriverNext]_vars

\* ------------------------------------------------------ the life of an invoice
\* updateInvoiceStatus writes an invoice's status and nothing else, and no
\* other handler reads it, so the invoice service is explored in the same
\* way, from a booking that updateBookingStatus has taken to graded.
InvoiceInit == CommissionInit

InvoiceNext ==
    \/ UpdateStatus
    \/ \E c \in Callers : CompleteCall(c, FALSE)
    \/ \E c \in Callers : CompleteCheck(c)
    \/ \E c \in Callers : CompleteCommission(c)
    \/ \E c \in Callers : CompleteInvoice(c)
    \/ \E c \in Callers : CompleteImportFails(c)
    \/ UpdateInvoiceStatus

InvoiceSpec == InvoiceInit /\ [][InvoiceNext]_vars

\* --------------------------------------- calls interleaved at their awaits
\* Two calls of the same operation in flight together, each awaited by its
\* caller, so that the outcome of both is kept.

\* Up to two createSanitisationRecord calls in flight for a collected booking.
SanitisationRaceInit == RecordInit

SanitisationRaceNext ==
    \/ UpdateStatus
    \/ \E c \in CallIds : SanitisationCall(c, TRUE)
    \/ \E c \in CallIds : SanitisationPush(c)
    \/ \E c \in CallIds : SanitisationCheck(c)
    \/ \E c \in CallIds : SanitisationJobWrite(c)
    \/ \E c \in CallIds : SanitisationImportFails(c)

SanitisationRaceSpec == SanitisationRaceInit /\ [][SanitisationRaceNext]_vars

\* Up to two completeBooking calls in flight for a graded booking.
CompletionRaceInit == CommissionInit

CompletionRaceNext ==
    \/ \E c \in CallIds : CompleteCall(c, TRUE)
    \/ \E c \in CallIds : CompleteCheck(c)
    \/ \E c \in CallIds : CompleteCommission(c)
    \/ \E c \in CallIds : CompleteInvoice(c)
    \/ \E c \in CallIds : CompleteImportFails(c)

CompletionRaceSpec == CompletionRaceInit /\ [][CompletionRaceNext]_vars


\* ================================================================= claims
\* The booking chain as the specification states it.
NonTerminal == {"created", "scheduled", "collected", "sanitised", "graded"}

ChainNext(s) ==
    CASE s = "created" -> "scheduled"
      [] s = "scheduled" -> "collected"
      [] s = "collected" -> "sanitised"
      [] s = "sanitised" -> "graded"
      [] s = "graded" -> "completed"

\* The linked job of a booking, as a set of at most one record.
LinkedJobs(bookingId) ==
    { mockJobs[i] : i \in { k \in DOMAIN mockJobs :
                              mockJobs[k].id = mockBookings[bookingId].jobId } }

\* C1: UpdateStatus on a booking in created, scheduled, collected, sanitised or
\* graded accepts only the current status or the single next status of the
\* chain (and then sets it); every other requested status (skips, backward
\* moves, cancelled) is rejected with VALIDATION_ERROR and the booking and the
\* jobs are as they were.
C1_OnlyCurrentOrNext ==
    \A b \in BookingIds, s \in BookingStatus :
        mockBookings[b].status \in NonTerminal =>
            IF s \in {mockBookings[b].status, ChainNext(mockBookings[b].status)}
            THEN /\ updateBookingStatusResult(b, s) = "ok"
                 /\ \A t \in Readings(now) :
                       BookingAfterUpdateStatus(b, s, t).status = s
            ELSE /\ updateBookingStatusResult(b, s) = "VALIDATION_ERROR"
                 /\ \A t \in Readings(now) :
                       /\ BookingAfterUpdateStatus(b, s, t) = mockBookings[b]
                       /\ JobsAfterUpdateStatus(b, s, t) = mockJobs

\* C1 witness: a collected booking with a linked job, where a skip to graded,
\* a move back to scheduled and a cancellation are all rejected.
C1_Witness ==
    \E b \in BookingIds :
        /\ mockBookings[b].status = "collected"
        /\ LinkedJobs(b) # {}
        /\ updateBookingStatusResult(b, "graded") = "VALIDATION_ERROR"
        /\ updateBookingStatusResult(b, "scheduled") = "VALIDATION_ERROR"
        /\ updateBookingStatusResult(b, "cancelled") = "VALIDATION_ERROR"

\* C2: completed and cancelled are terminal: no step changes the status of a
\* booking that is completed or cancelled.
C2_TerminalStaysTerminal ==
    [][ \A b \in BookingIds :
          mockBookings[b].status \in {"completed", "cancelled"} =>
              mockBookings'[b].status = mockBookings[b].status ]_vars

\* C3: a job never outruns its booking on the shared milestones: job sanitised
\* implies booking sanitised, graded or completed; job graded implies booking
\* graded or completed; job finalised implies booking completed.
C3_JobNeverOutruns ==
    \A i \in DOMAIN mockJobs :
        LET job == mockJobs[i]
            bookingStatus == mockBookings[job.bookingId].status
        IN  /\ job.status = "sanitised" =>
                 bookingStatus \in {"sanitised", "graded", "completed"}
            /\ job.status = "graded" => bookingStatus \in {"graded", "completed"}
            /\ job.status = "finalised" => bookingStatus = "completed"

\* The jobs whose bookingId refers to a booking.
JobsOf(bookingId) == { i \in DOMAIN mockJobs : mockJobs[i].bookingId = bookingId }

\* C4: every booking has at most one job whose bookingId refers to it, and
\* that job is the one the booking links to.
C4_AtMostOneJob ==
    \A b \in BookingIds :
        /\ Cardinality(JobsOf(b)) <= 1
        /\ \A i \in JobsOf(b) : mockJobs[i].id = mockBookings[b].jobId

\* C4 witness: AssignDriver has succeeded a second time on a booking that
\* already had its job (scheduledAt is later than the job's creation).
C4_Witness ==
    \E b \in BookingIds :
        /\ mockBookings[b].status = "scheduled"
        /\ mockBookings[b].jobId # Unset
        /\ mockBookings[b].scheduledAt > mockBookings[b].jobId
        /\ Cardinality(JobsOf(b)) = 1

\* The invoices and the commissions created for a booking.
InvoicesOf(bookingId) ==
    { i \in DOMAIN mockInvoices : mockInvoices[i].bookingId = bookingId }

CommissionsOf(bookingId) ==
    { i \in DOMAIN mockCommissions : mockCommissions[i].bookingId = bookingId }

\* A completeBooking call on bookingId that has passed the status check and
\* is suspended before its commission or invoice block.
Completing(c, bookingId) ==
    /\ inFlight[c].op = "completeBooking"
    /\ inFlight[c].bookingId = bookingId
    /\ inFlight[c].pc \in {"import-commission", "import-invoice"}

\* C5: exactly one invoice exists for each booking that has transitioned into
\* completed, and none for a booking that has not (a booking whose
\* completeBooking call is still on its way to the invoice block is not
\* counted).
C5_ExactlyOneInvoice ==
    \A b \in BookingIds :
        (\A c \in CallIds : ~Completing(c, b)) =>
            Cardinality(InvoicesOf(b)) = IF b \in hasCompleted THEN 1 ELSE 0

\* The state half of C6: at most one commission per booking, and only for a
\* booking with a reseller.
C6_CommissionState ==
    \A b \in BookingIds :
        /\ Cardinality(CommissionsOf(b)) <= 1
        /\ CommissionsOf(b) # {} =>
              mockBookings[b].resellerId # "" /\ mockBookings[b].resellerName # ""

\* The step half of C6: a commission is appended only by the completeBooking
\* call that has made its booking transition into completed.
C6_CommissionStep ==
    \A b \in BookingIds :
        Len(mockCommissions') > Len(mockCommissions)
          /\ mockCommissions'[Len(mockCommissions')].bookingId = b
        => \E c \in CallIds :
              /\ Completing(c, b)
              /\ CompleteCommission(c)
              /\ mockBookings[b].status = "completed"

\* C6: at most one commission exists per booking, only for a booking with a
\* reseller, and a commission is created only by the call in which its
\* booking transitions into completed.
C6_AtMostOneCommission == []C6_CommissionState /\ [][C6_CommissionStep]_vars

\* C7: UpdateStatus(bookingId, completed) on a graded booking has the effects
\* of CompleteBooking on that booking: besides the booking and the job, the
\* commission (for a booking with a reseller) and the invoice that a
\* completeBooking call run to its return pushes.
C7_UpdateStatusCompletesLikeCompleteBooking ==
    [][ \A b \in BookingIds :
          (mockBookings[b].status = "graded" /\ updateBookingStatusMock(b, "completed"))
          => /\ mockBookings'[b].status = "completed"
             /\ mockJobs' = FinaliseLinkedJob(mockJobs, mockBookings[b], now')
             /\ mockCommissions' =
                  CommissionsAfterComplete(mockCommissions, b, mockBookings'[b], now')
             /\ mockInvoices' =
                  Append(mockInvoices, NewInvoice(b, mockBookings'[b], now')) ]_vars

\* C8: a milestone timestamp that is set is never changed by a later step.
C8_TimestampsNeverOverwritten ==
    [][ \A b \in BookingIds :
          /\ mockBookings[b].sanitisedAt # Unset =>
                mockBookings'[b].sanitisedAt = mockBookings[b].sanitisedAt
          /\ mockBookings[b].gradedAt # Unset =>
                mockBookings'[b].gradedAt = mockBookings[b].gradedAt
          /\ mockBookings[b].completedAt # Unset =>
                mockBookings'[b].completedAt = mockBookings[b].completedAt ]_vars

\* The outcome half of C9: UpdateStatus with the current status succeeds.
C9_SameStatusSucceeds ==
    \A b \in BookingIds :
        updateBookingStatusResult(b, mockBookings[b].status) = "ok"

\* The effect half of C9: such a step changes nothing.
C9_SameStatusStep ==
    \A b \in BookingIds :
        updateBookingStatusMock(b, mockBookings[b].status) =>
            UNCHANGED << mockBookings, mockJobs, mockCommissions, mockInvoices >>

\* C9: UpdateStatus with the booking's current status as target succeeds as a
\* no-op: the booking, its job, the commissions and the invoices are unchanged.
C9_SameStatusIsNoOp == []C9_SameStatusSucceeds /\ [][C9_SameStatusStep]_vars

\* The claim's completeness predicate, over an array of records: every
\* category of the booking's line items has a record of that booking.
EveryCategoryHasRecord(bookingId, records) ==
    \A c \in { mockBookings[bookingId].assets[i].categoryId :
                 i \in DOMAIN mockBookings[bookingId].assets } :
        \E k \in DOMAIN records :
            records[k].bookingId = bookingId /\ records[k].assetId = c

\* A record call in slot c that is past its push.
PastPush(c, op) ==
    inFlight[c].op = op /\ inFlight[c].pc \in {"import-entities", "import-data"}

\* The record a call has pushed is in the array.
OwnRecordIn(c, records) ==
    \E k \in DOMAIN records :
        records[k] = NewRecord(inFlight[c].bookingId, inFlight[c].assetId)

\* The state half of C10: when a call evaluates the coverage, its own record
\* has been appended.
C10_OwnRecordCounted ==
    \A c \in CallIds :
        PastPush(c, "createSanitisationRecord") =>
            OwnRecordIn(c, mockSanitisationRecords)

\* The coverage stretch of C10: it sets the booking to sanitised exactly
\* when the booking is collected and every category has a record; otherwise
\* the status stays.  A call whose booking id does not resolve changes no
\* booking.
C10_CheckStep ==
    \A c \in CallIds :
        SanitisationCheck(c) =>
            LET b == inFlight[c].bookingId IN
            IF b \in BookingIds
            THEN mockBookings'[b].status =
                    IF /\ mockBookings[b].status = "collected"
                       /\ EveryCategoryHasRecord(b, mockSanitisationRecords)
                    THEN "sanitised"
                    ELSE mockBookings[b].status
            ELSE mockBookings' = mockBookings

\* The failure path of C10: a call whose import throws changes no booking
\* and no job.
C10_ImportFailsStep ==
    \A c \in CallIds :
        SanitisationImportFails(c) =>
            mockBookings' = mockBookings /\ mockJobs' = mockJobs

\* A step that sets a booking to sanitised is the coverage stretch of a
\* record call or a step of UpdateStatus.
C10_AdvanceStep ==
    \A b \in BookingIds :
        ( mockBookings[b].status = "collected"
          /\ mockBookings'[b].status = "sanitised" ) =>
            \/ UpdateStatus
            \/ \E c \in CallIds : inFlight[c].bookingId = b /\ SanitisationCheck(c)

\* C10 as stated, over the whole call: whichever way a RecordSanitisation call
\* leaves the point where the cascade starts (the import of the bookings
\* resolves or throws), the booking becomes sanitised if and only if it is
\* collected and, with the new record appended, every category of its line
\* items has a sanitisation record; otherwise the status stays.
C10_AdvancesIffCovered ==
    [][ \A c \in CallIds :
          ( \/ SanitisationCheck(c)
            \/ (inFlight[c].pc = "import-entities" /\ SanitisationImportFails(c)) ) =>
              LET b == inFlight[c].bookingId IN
              b \in BookingIds =>
                  mockBookings'[b].status =
                    IF /\ mockBookings[b].status = "collected"
                       /\ EveryCategoryHasRecord(b, mockSanitisationRecords)
                    THEN "sanitised"
                    ELSE mockBookings[b].status ]_vars

\* C10, amended: a RecordSanitisation call whose import of the bookings
\* resolves sets the booking to sanitised if and only if the booking is
\* collected and, with the new record appended, every category of its line
\* items has a sanitisation record; otherwise the status stays.  A call whose
\* import throws leaves the bookings and the jobs as they are, whatever the
\* coverage.
C10_SanitisationCompleteness ==
    []C10_OwnRecordCounted
        /\ [][C10_CheckStep /\ C10_ImportFailsStep /\ C10_AdvanceStep]_vars

\* C10 witness: a booking with two categories that the second of two
\* sanitisation records has just moved to sanitised.
C10_Witness ==
    \E b \in BookingIds :
        /\ Len(mockBookings[b].assets) = 2
        /\ mockBookings[b].status = "sanitised"
        /\ mockBookings[b].sanitisedAt = now
        /\ Len(mockSanitisationRecords) = Len(InitialRecords) + 2
        /\ EveryCategoryHasRecord(b, mockSanitisationRecords)
        /\ ~EveryCategoryHasRecord(b, SubSeq(mockSanitisationRecords, 1,
                                             Len(mockSanitisationRecords) - 1))

\* The state half of C11: when a call evaluates the coverage, its own record
\* has been appended, and a call waits to write the job only after it has
\* advanced a booking that has a job.
C11_OwnRecordCounted ==
    \A c \in CallIds :
        PastPush(c, "createGradingRecord") =>
            /\ OwnRecordIn(c, mockGradingRecords)
            /\ inFlight[c].pc = "import-data" =>
                  /\ inFlight[c].observed = "complete"
                  /\ mockBookings[inFlight[c].bookingId].jobId # Unset

\* The coverage stretch of C11: the booking moves from sanitised to graded,
\* with gradedAt stamped, exactly when it is sanitised and every category has
\* a grading record, and then the call goes on to the job when the booking
\* has one; otherwise the booking is unchanged.  The jobs are not written in
\* this stretch.
C11_CheckStep ==
    \A c \in CallIds :
        GradingCheck(c) =>
            LET b == inFlight[c].bookingId IN
            /\ mockJobs' = mockJobs
            /\ IF /\ b \in BookingIds
                  /\ mockBookings[b].status = "sanitised"
                  /\ EveryCategoryHasRecord(b, mockGradingRecords)
               THEN /\ mockBookings'[b].status = "graded"
                    /\ mockBookings'[b].gradedAt # Unset
                    /\ (inFlight'[c].pc = "import-data") <=> (mockBookings[b].jobId # Unset)
               ELSE /\ mockBookings' = mockBookings
                    /\ inFlight'[c].pc # "import-data"

\* The job stretch of C11: a linked job in sanitised becomes graded, a linked
\* job in any other status and every other job are unchanged, and so is the
\* booking.
C11_JobWriteStep ==
    \A c \in CallIds :
        GradingJobWrite(c) =>
            LET b == inFlight[c].bookingId IN
            /\ mockBookings' = mockBookings
            /\ Len(mockJobs') = Len(mockJobs)
            /\ \A i \in DOMAIN mockJobs :
                  mockJobs'[i] =
                    IF /\ mockJobs[i].id = mockBookings[b].jobId
                       /\ mockJobs[i].status = "sanitised"
                    THEN [mockJobs[i] EXCEPT !.status = "graded"]
                    ELSE mockJobs[i]

\* The failure path of C11: a call whose import throws, before the coverage
\* is computed or before the job is written, changes no booking and no job.
C11_ImportFailsStep ==
    \A c \in CallIds :
        GradingImportFails(c) =>
            mockBookings' = mockBookings /\ mockJobs' = mockJobs

\* C11 as stated, over the whole call: whichever way a RecordGrading call
\* leaves the point where the cascade starts (the import of the bookings
\* resolves or throws), the booking moves from sanitised to graded, with
\* gradedAt stamped, if and only if it is sanitised and, with the new record
\* appended, every category has a grading record; and whichever way a call
\* that advanced the booking leaves the import of the jobs, a linked job in
\* sanitised becomes graded and a linked job in any other status is unchanged.
C11_AdvancesIffCovered ==
    [][ \A c \in CallIds :
          LET b == inFlight[c].bookingId IN
          /\ ( \/ GradingCheck(c)
               \/ (inFlight[c].pc = "import-entities" /\ GradingImportFails(c)) ) =>
                 ( b \in BookingIds =>
                     IF /\ mockBookings[b].status = "sanitised"
                        /\ EveryCategoryHasRecord(b, mockGradingRecords)
                     THEN /\ mockBookings'[b].status = "graded"
                          /\ mockBookings'[b].gradedAt # Unset
                     ELSE mockBookings'[b] = mockBookings[b] )
          /\ ( \/ GradingJobWrite(c)
               \/ (inFlight[c].pc = "import-data" /\ GradingImportFails(c)) ) =>
                 \A i \in DOMAIN mockJobs :
                    mockJobs'[i] =
                      IF /\ mockJobs[i].id = mockBookings[b].jobId
                         /\ mockJobs[i].status = "sanitised"
                      THEN [mockJobs[i] EXCEPT !.status = "graded"]
                      ELSE mockJobs[i] ]_vars

\* C11, amended: a RecordGrading call whose import of the bookings resolves
\* moves the booking from sanitised to graded, with gradedAt stamped, if and
\* only if the booking is sanitised and, with the new record appended, every
\* category of its line items has a grading record of that booking; when it
\* advances and the import of the jobs resolves, a linked job in sanitised
\* becomes graded and a linked job in any other status is unchanged; when it
\* does not advance, the booking and the jobs are unchanged.  A call whose
\* import throws changes no booking and no job from then on: thrown before
\* the coverage is computed it leaves the booking where it is, thrown after
\* the booking was graded it leaves the linked job in sanitised.
C11_GradingCompleteness ==
    []C11_OwnRecordCounted
        /\ [][C11_CheckStep /\ C11_JobWriteStep /\ C11_ImportFailsStep]_vars

\* C11 witness: a booking with two categories that the second of two grading
\* records has just moved to graded, its linked job following from sanitised.
C11_Witness ==
    \E b \in BookingIds :
        /\ Len(mockBookings[b].assets) = 2
        /\ mockBookings[b].status = "graded"
        /\ mockBookings[b].gradedAt = now
        /\ Len(mockGradingRecords) = Len(InitialRecords) + 2
        /\ EveryCategoryHasRecord(b, mockGradingRecords)
        /\ ~EveryCategoryHasRecord(b, SubSeq(mockGradingRecords, 1,
                                             Len(mockGradingRecords) - 1))
        /\ \E j \in LinkedJobs(b) : j.status = "graded"

\* The job status from which the booking's milestone takes the job along.
JobPrerequisite(status) ==
    CASE status = "sanitised" -> "warehouse"
      [] status = "graded" -> "sanitised"
      [] status = "completed" -> "graded"

\* The job status the booking's milestone cascades to.
JobCascadeTarget(status) ==
    CASE status = "sanitised" -> "sanitised"
      [] status = "graded" -> "graded"
      [] status = "completed" -> "finalised"

\* C12: when UpdateStatus sets a booking to sanitised, graded or completed,
\* the linked job changes only if it is in the prerequisite status (warehouse
\* to sanitised, sanitised to graded, graded to finalised with completedDate
\* stamped); a linked job in any other status, and every other job, is left
\* unchanged, and the booking still takes the requested status.
C12_CascadeIsConditional ==
    \A b \in BookingIds, s \in {"sanitised", "graded", "completed"} :
        updateBookingStatusResult(b, s) = "ok" =>
          \A t \in Readings(now) :
            /\ BookingAfterUpdateStatus(b, s, t).status = s
            /\ Len(JobsAfterUpdateStatus(b, s, t)) = Len(mockJobs)
            /\ \A i \in DOMAIN mockJobs :
                  JobsAfterUpdateStatus(b, s, t)[i] =
                    IF /\ mockJobs[i].id = mockBookings[b].jobId
                       /\ mockJobs[i].status = JobPrerequisite(s)
                    THEN IF s = "completed"
                         THEN [mockJobs[i] EXCEPT !.status = "finalised",
                                                  !.completedDate = t]
                         ELSE [mockJobs[i] EXCEPT !.status = JobCascadeTarget(s)]
                    ELSE mockJobs[i]

\* C12 witness: UpdateStatus has just moved a collected booking to sanitised
\* (no sanitisation record was added) while its linked job, still on the
\* driver's side of the chain, stayed where it was.
C12_Witness ==
    \E b \in BookingIds :
        /\ mockBookings[b].status = "sanitised"
        /\ mockBookings[b].sanitisedAt = now
        /\ Len(mockSanitisationRecords) = Len(InitialRecords)
        /\ \E j \in LinkedJobs(b) : j.status = "collected"

\* C13: a successful AssignDriver step sets the booking to scheduled, appends
\* one job in status routed if and only if no job referred to the booking
\* before (existing jobs are untouched either way), and leaves the booking
\* and a job linked in both directions.
C13_AssignDriverLinks ==
    [][ \A b \in BookingIds, d \in DriverIds, a \in Actors :
          (assignDriverResult(b) = "ok" /\ assignDriverMock(b, d, a)) =>
              /\ mockBookings'[b].status = "scheduled"
              /\ IF JobsOf(b) = {}
                 THEN /\ Len(mockJobs') = Len(mockJobs) + 1
                      /\ mockJobs'[Len(mockJobs')].status = "routed"
                      /\ mockJobs'[Len(mockJobs')].bookingId = b
                      /\ SubSeq(mockJobs', 1, Len(mockJobs)) = mockJobs
                 ELSE mockJobs' = mockJobs
              /\ \E i \in DOMAIN mockJobs' :
                    /\ mockJobs'[i].id = mockBookings'[b].jobId
                    /\ mockJobs'[i].bookingId = b ]_vars

\* C13 witness: AssignDriver has just scheduled a booking and created its
\* job in this very call (the job's id is the call's clock reading).
C13_Witness ==
    \E b \in BookingIds :
        /\ mockBookings[b].status = "scheduled"
        /\ mockBookings[b].scheduledAt = now
        /\ mockBookings[b].jobId = now
        /\ mockBookings[b].driverId \in DriverIds
        /\ \E j \in LinkedJobs(b) : j.status = "routed" /\ j.bookingId = b

\* The outcome half of C14: NOT_FOUND for an id that does not resolve,
\* VALIDATION_ERROR for a booking in any status other than created.
C14_AssignDriverOutcome ==
    /\ \A id \in RequestIds \ BookingIds : assignDriverResult(id) = "NOT_FOUND"
    /\ \A b \in BookingIds :
          assignDriverResult(b) =
            IF mockBookings[b].status = "created" THEN "ok" ELSE "VALIDATION_ERROR"

\* The effect half of C14: a failing AssignDriver step creates no job and
\* leaves every booking (status, driver fields, scheduledAt, jobId) as it was.
C14_AssignDriverFailureStep ==
    \A id \in RequestIds, d \in DriverIds, a \in Actors :
        (assignDriverResult(id) # "ok" /\ assignDriverMock(id, d, a)) =>
            /\ mockJobs' = mockJobs
            /\ mockBookings' = mockBookings

\* C14: AssignDriver fails with NOT_FOUND when the booking id does not
\* resolve and with VALIDATION_ERROR whenever the booking is not in created,
\* and in both cases no job is created and the booking's status, driver
\* fields, scheduledAt and jobId are unchanged.
C14_AssignDriverFails ==
    []C14_AssignDriverOutcome /\ [][C14_AssignDriverFailureStep]_vars

\* C14 witness: a booking that has moved on to collected with its job, where
\* AssignDriver is refused, next to an id that does not resolve.
C14_Witness ==
    \E b \in BookingIds :
        /\ mockBookings[b].status = "collected"
        /\ mockBookings[b].jobId # Unset
        /\ assignDriverResult(b) = "VALIDATION_ERROR"
        /\ assignDriverResult(UnknownBooking) = "NOT_FOUND"

\* The outcome half of C15: VALIDATION_ERROR for a booking not in graded.
C15_CompleteBookingOutcome ==
    \A b \in BookingIds :
        completeBookingResult(b) =
            IF mockBookings[b].status = "graded" THEN "ok" ELSE "VALIDATION_ERROR"

\* The effect half of C15: a CompleteBooking call that fails leaves the
\* bookings, the jobs, the commissions and the invoices as they were, and
\* nothing of the call is left to run.
C15_CompleteBookingFailureStep ==
    \A c \in CallIds :
        (CompleteCheck(c) /\ completeBookingResult(inFlight[c].bookingId) # "ok") =>
            /\ UNCHANGED << mockBookings, mockJobs, mockCommissions, mockInvoices >>
            /\ inFlight'[c].pc \in {"idle", "returned"}

\* C15: CompleteBooking on a booking whose status is not graded fails with
\* VALIDATION_ERROR and has no effect on the booking's status and
\* completedAt, the linked job, the commissions and the invoices.
C15_CompleteBookingFails ==
    []C15_CompleteBookingOutcome /\ [][C15_CompleteBookingFailureStep]_vars

\* C15 witness: a sanitised booking whose job is sanitised too, one step
\* short of graded, where CompleteBooking is refused.
C15_Witness ==
    \E b \in BookingIds :
        /\ mockBookings[b].status = "sanitised"
        /\ \E j \in LinkedJobs(b) : j.status = "sanitised"
        /\ mockInvoices = << >>
        /\ completeBookingResult(b) = "VALIDATION_ERROR"

\* C16: a CompleteBooking call on a graded booking sets the booking's status
\* to completed and sets completedAt; a linked job in graded becomes
\* finalised with completedDate set, and a linked job in any other status,
\* like every other job, is left unchanged.
C16_CompleteBookingEffects ==
    [][ \A c \in CallIds, b \in BookingIds :
          ( /\ inFlight[c].bookingId = b
            /\ mockBookings[b].status = "graded"
            /\ CompleteCheck(c) ) =>
              /\ mockBookings'[b].status = "completed"
              /\ mockBookings'[b].completedAt # Unset
              /\ Len(mockJobs') = Len(mockJobs)
              /\ \A i \in DOMAIN mockJobs :
                    IF /\ mockJobs[i].id = mockBookings[b].jobId
                       /\ mockJobs[i].status = "graded"
                    THEN /\ mockJobs'[i].status = "finalised"
                         /\ mockJobs'[i].completedDate # Unset
                         /\ mockJobs'[i] =
                              [mockJobs[i] EXCEPT
                                  !.status = "finalised",
                                  !.completedDate = mockJobs'[i].completedDate]
                    ELSE mockJobs'[i] = mockJobs[i] ]_vars

\* C16 witness: CompleteBooking has completed a booking, stamped it,
\* finalised and stamped the linked job, and created the invoice.
C16_Witness ==
    \E b \in BookingIds :
        /\ mockBookings[b].status = "completed"
        /\ mockBookings[b].completedAt # Unset
        /\ InvoicesOf(b) # {}
        /\ \E j \in LinkedJobs(b) : j.status = "finalised" /\ j.completedDate # Unset

\* k is n / d rounded to the nearest integer, halves upwards (n >= 0, d > 0).
IsRounded(k, n, d) == 2 * d * k - d <= 2 * n /\ 2 * n < 2 * d * k + d

RECURSIVE SumFirst(_, _)
\* The sum of the first n numbers of a sequence.
SumFirst(numbers, n) ==
    IF n = 0 THEN 0 ELSE numbers[n] + SumFirst(numbers, n - 1)

\* C17 as stated, over the whole call: a CompleteBooking call on a graded
\* booking reaches its commission block if and only if the booking has both
\* a reseller id and a reseller name, and whichever way it leaves the import
\* of that block (resolved or thrown) it has appended the commission.
C17_CommissionIffReseller ==
    [][ \A c \in CallIds, b \in BookingIds :
          inFlight[c].bookingId = b =>
            /\ (mockBookings[b].status = "graded" /\ CompleteCheck(c)) =>
                 ( inFlight'[c].pc = "import-commission"
                     <=> ( mockBookings[b].resellerId # ""
                           /\ mockBookings[b].resellerName # "" ) )
            /\ ( /\ inFlight[c].pc = "import-commission"
                 /\ (CompleteCommission(c) \/ CompleteImportFails(c)) ) =>
                 Len(mockCommissions') = Len(mockCommissions) + 1 ]_vars

\* C17, amended: a CompleteBooking call on a graded booking appends a
\* commission if and only if the booking has both a reseller id and a
\* reseller name and the import of the commission block resolves; the
\* commission is pending and its commissionAmount is estimatedBuyback * 10 /
\* 100 rounded to the nearest integer (1000 gives 100); a booking without
\* reseller, or with only one of the two fields, yields no commission, and so
\* does a call whose import throws.  The call enters its commission block
\* exactly for a booking with both fields, the block appends the commission
\* when its import resolves and nothing when it throws, and nothing else
\* writes the commissions.
C17_CommissionOnCompletion ==
    [][ /\ \A c \in CallIds, b \in BookingIds :
             ( /\ inFlight[c].bookingId = b
               /\ mockBookings[b].status = "graded"
               /\ CompleteCheck(c) ) =>
                 ( inFlight'[c].pc = "import-commission"
                     <=> ( mockBookings[b].resellerId # ""
                           /\ mockBookings[b].resellerName # "" ) )
        /\ \A c \in CallIds, b \in BookingIds :
             (inFlight[c].bookingId = b /\ CompleteCommission(c)) =>
                 /\ Len(mockCommissions') = Len(mockCommissions) + 1
                 /\ SubSeq(mockCommissions', 1, Len(mockCommissions)) = mockCommissions
                 /\ LET n == mockCommissions'[Len(mockCommissions')] IN
                      /\ n.bookingId = b
                      /\ n.status = "pending"
                      /\ IsRounded(n.commissionAmount,
                                   mockBookings[b].estimatedBuyback * 10, 100)
                      /\ mockBookings[b].estimatedBuyback = 1000 =>
                            n.commissionAmount = 100
        /\ \A c \in CallIds :
             CompleteImportFails(c) => mockCommissions' = mockCommissions
        /\ mockCommissions' # mockCommissions =>
              \E c \in CallIds : CompleteCommission(c) ]_vars

\* C17 witness: the completion of a booking with a reseller and an
\* estimatedBuyback of 1000 has created a pending commission of 100.
C17_Witness ==
    \E b \in BookingIds :
        /\ mockBookings[b].status = "completed"
        /\ mockBookings[b].estimatedBuyback = 1000
        /\ \E i \in CommissionsOf(b) :
              /\ mockCommissions[i].status = "pending"
              /\ mockCommissions[i].commissionAmount = 100

\* C18: a CompleteBooking call on a graded booking appends one invoice in
\* status draft with one item per asset line, unitPrice = estimatedBuyback /
\* total quantity rounded to the nearest integer, item total = unitPrice *
\* line quantity, subtotal = sum of the item totals, tax = subtotal * 0.20
\* rounded to the nearest integer and total = subtotal + tax (quantities 2
\* and 3 with buyback 500 give unitPrice 100, subtotal 500, tax 100, total 600).
C18_InvoiceOnCompletion ==
    [][ \A c \in CallIds, b \in BookingIds :
          (inFlight[c].bookingId = b /\ CompleteInvoice(c)) =>
              /\ Len(mockInvoices') = Len(mockInvoices) + 1
              /\ LET booking == mockBookings[b]
                     inv == mockInvoices'[Len(mockInvoices')]
                     lines == Len(booking.assets)
                     quantity == SumFirst([i \in 1..lines |-> booking.assets[i].quantity],
                                          lines)
                 IN
                   /\ inv.status = "draft"
                   /\ Len(inv.items) = lines
                   /\ \A i \in 1..lines :
                         /\ IsRounded(inv.items[i].unitPrice,
                                      booking.estimatedBuyback, quantity)
                         /\ inv.items[i].total =
                              inv.items[i].unitPrice * booking.assets[i].quantity
                   /\ inv.subtotal =
                        SumFirst([i \in 1..lines |-> inv.items[i].total], lines)
                   /\ IsRounded(inv.tax, inv.subtotal * 20, 100)
                   /\ inv.total = inv.subtotal + inv.tax
                   /\ ( /\ lines = 2
                        /\ booking.assets[1].quantity = 2
                        /\ booking.assets[2].quantity = 3
                        /\ booking.estimatedBuyback = 500 )
                      => /\ \A i \in 1..lines : inv.items[i].unitPrice = 100
                         /\ inv.subtotal = 500
                         /\ inv.tax = 100
                         /\ inv.total = 600 ]_vars

\* C18 witness: the completion of a booking with quantities 2 and 3 and an
\* estimatedBuyback of 500 has created a draft invoice of total 600.
C18_Witness ==
    \E b \in BookingIds :
        /\ mockBookings[b].status = "completed"
        /\ mockBookings[b].estimatedBuyback = 500
        /\ Len(mockBookings[b].assets) = 2
        /\ mockBookings[b].assets[1].quantity = 2
        /\ mockBookings[b].assets[2].quantity = 3
        /\ \E i \in InvoicesOf(b) :
              /\ mockInvoices[i].status = "draft"
              /\ mockInvoices[i].subtotal = 500
              /\ mockInvoices[i].total = 600

\* The commission chain as the specification states it: the statuses a
\* request may name, given the current one.
CommissionChainAllowed(currentStatus) ==
    CASE currentStatus = "pending" -> {"pending", "approved"}
      [] currentStatus = "approved" -> {"approved", "paid"}
      [] currentStatus = "paid" -> {"paid"}

\* The outcome half of C19: from every status, paid included, a request for
\* a status other than the current one or the single next one is rejected
\* with VALIDATION_ERROR and leaves the commission as it was.
C19_CommissionOutcome ==
    \A i \in DOMAIN mockCommissions, s \in CommissionStatus :
        LET c == mockCommissions[i] IN
        IF s \in CommissionChainAllowed(c.status)
        THEN updateCommissionStatusResult(c.id, s) = "ok"
        ELSE /\ updateCommissionStatusResult(c.id, s) = "VALIDATION_ERROR"
             /\ \A t \in Readings(now) : CommissionAfterUpdateStatus(c.id, s, t) = c

\* The step half of C19: a commission's status moves only along the chain.
C19_CommissionStep ==
    \A i \in DOMAIN mockCommissions :
        mockCommissions'[i].status \in CommissionChainAllowed(mockCommissions[i].status)

\* C19: a commission's status only ever changes along pending -> approved ->
\* paid: from every status, the terminal paid included, a request for any
\* status other than the current or the single next one is rejected with
\* VALIDATION_ERROR and the commission is unchanged, so a paid commission
\* never returns to pending or approved.
C19_CommissionLinear == []C19_CommissionOutcome /\ [][C19_CommissionStep]_vars

\* The state half of C20: a paid commission carries a paid timestamp.
C20_PaidHasDate ==
    \A i \in DOMAIN mockCommissions :
        mockCommissions[i].status = "paid" => mockCommissions[i].paidDate # Unset

\* The step half of C20: the paid timestamp is written only by a step that
\* makes the commission paid while it has none, and once set it is never
\* changed.
C20_PaidDateStep ==
    \A i \in DOMAIN mockCommissions :
        LET before == mockCommissions[i]
            after == mockCommissions'[i]
        IN  /\ before.paidDate # Unset => after.paidDate = before.paidDate
            /\ (before.paidDate = Unset /\ after.status = "paid") =>
                  after.paidDate # Unset
            /\ after.paidDate # before.paidDate => after.status = "paid"

\* C20: a commission's paid timestamp is set the first time its status
\* becomes paid and is never changed afterwards by any sequence of
\* UpdateCommissionStatus calls, repeated requests for paid included.
C20_PaidDateSetOnce == []C20_PaidHasDate /\ [][C20_PaidDateStep]_vars

\* C20 witness: a commission that updateCommissionStatus has made paid,
\* after its approval, and whose paid timestamp is older than the latest
\* clock reading.
C20_Witness ==
    \E i \in DOMAIN mockCommissions :
        /\ mockCommissions[i].status = "paid"
        /\ mockCommissions[i].paidDate # Unset
        /\ mockCommissions[i].paidDate < now

\* The invoice table as the specification states it, cancellation aside.
InvoiceTable(currentStatus) ==
    CASE currentStatus = "draft" -> {"sent"}
      [] currentStatus = "sent" -> {"paid", "overdue"}
      [] currentStatus = "overdue" -> {"paid"}
      [] currentStatus = "paid" -> {}
      [] currentStatus = "cancelled" -> {}

\* The outcome half of C21: a request for a status other than cancelled and
\* other than the current one succeeds only if the pair is in the table;
\* otherwise it ends in VALIDATION_ERROR and the invoice is as it was.
C21_InvoiceOutcome ==
    \A i \in DOMAIN mockInvoices :
        LET inv == mockInvoices[i] IN
        \A s \in InvoiceStatus \ {"cancelled", inv.status} :
            s \notin InvoiceTable(inv.status) =>
                /\ updateInvoiceStatusResult(inv.id, s) = "VALIDATION_ERROR"
                /\ InvoiceAfterUpdateStatus(inv.id, s) = inv

\* The step half of C21: a cancelled invoice stays cancelled.
C21_CancelledStep ==
    \A i \in DOMAIN mockInvoices :
        mockInvoices[i].status = "cancelled" => mockInvoices'[i].status = "cancelled"

\* C21: for every invoice status and every requested status other than
\* cancelled and the current one, UpdateInvoiceStatus succeeds only if the
\* pair is in the table draft->{sent}, sent->{paid, overdue}, overdue->{paid},
\* paid->{}, cancelled->{}; otherwise it fails with VALIDATION_ERROR and the
\* invoice is unchanged; a cancelled invoice never moves to another status.
C21_InvoiceTransitions == []C21_InvoiceOutcome /\ [][C21_CancelledStep]_vars

\* C22: cancelling an invoice succeeds from draft, sent, paid and overdue and
\* sets the status to cancelled; a cancel request on an invoice that is
\* already cancelled is rejected.
C22_CancelInvoice ==
    \A i \in DOMAIN mockInvoices :
        LET inv == mockInvoices[i] IN
        IF inv.status # "cancelled"
        THEN /\ updateInvoiceStatusResult(inv.id, "cancelled") = "ok"
             /\ InvoiceAfterUpdateStatus(inv.id, "cancelled").status = "cancelled"
        ELSE updateInvoiceStatusResult(inv.id, "cancelled") # "ok"

\* The stretches of a record call after its push.
AfterPushStep(c) ==
    \/ SanitisationCheck(c) \/ SanitisationJobWrite(c) \/ SanitisationImportFails(c)
    \/ GradingCheck(c) \/ GradingJobWrite(c) \/ GradingImportFails(c)

\* C23: every RecordSanitisation or RecordGrading call, whether its cascade
\* runs, is skipped or fails on a lookup, appends exactly one record, the new
\* one, to its own array and leaves every earlier record (duplicates of the
\* same booking and category included) and the other array as they were: the
\* push appends the record, and no later stretch of the call, a failing
\* import included, writes either array.
C23_RecordAlwaysAppended ==
    [][ \A c \in CallIds :
          /\ SanitisationPush(c) =>
                /\ mockSanitisationRecords' =
                     Append(mockSanitisationRecords,
                            [bookingId |-> inFlight[c].bookingId,
                             assetId |-> inFlight[c].assetId])
                /\ mockGradingRecords' = mockGradingRecords
          /\ GradingPush(c) =>
                /\ mockGradingRecords' =
                     Append(mockGradingRecords,
                            [bookingId |-> inFlight[c].bookingId,
                             assetId |-> inFlight[c].assetId])
                /\ mockSanitisationRecords' = mockSanitisationRecords
          /\ AfterPushStep(c) =>
                /\ OwnRecordIn(c, IF inFlight[c].op = "createSanitisationRecord"
                                  THEN mockSanitisationRecords
                                  ELSE mockGradingRecords)
                /\ UNCHANGED << mockSanitisationRecords, mockGradingRecords >> ]_vars

\* C23 witness: two sanitisation records of the same booking and category
\* sit next to each other, and the booking, all of whose categories are
\* covered, is still collected because the cascade failed on its lookup.
C23_Witness ==
    \E b \in BookingIds :
        LET n == Len(mockSanitisationRecords) IN
        /\ n = Len(InitialRecords) + 2
        /\ mockSanitisationRecords[n] = mockSanitisationRecords[n - 1]
        /\ mockSanitisationRecords[n].bookingId = b
        /\ EveryCategoryHasRecord(b, mockSanitisationRecords)
        /\ mockBookings[b].status = "collected"

\* Some operation of the services takes the booking to cancelled in one call.
CancelStep(bookingId) ==
    /\ Next
    /\ mockBookings[bookingId].status # "cancelled"
    /\ mockBookings'[bookingId].status = "cancelled"

\* C24: the booking status cancelled is reachable from created and from
\* scheduled (some booking operation takes a booking in created or scheduled
\* to cancelled) and is not reachable from collected, sanitised or graded.
C24_CancelledReachable ==
    \A b \in BookingIds :
        /\ mockBookings[b].status \in {"created", "scheduled"} => ENABLED CancelStep(b)
        /\ mockBookings[b].status \in {"collected", "sanitised", "graded"} =>
              ~ENABLED CancelStep(b)

\* What holds instead of C24: no call takes a booking from created,
\* scheduled, collected, sanitised or graded to cancelled.
C24_NeverCancelledFromChain ==
    [][ \A b \in BookingIds :
          mockBookings[b].status \in NonTerminal =>
              mockBookings'[b].status # "cancelled" ]_vars

\* C25: a driver can move a job in booked directly to en-route, and the
\* driver-side edit check permits a driver to act on a job in booked.
C25_BookedShortcutIsLegal ==
    \A i \in DOMAIN mockJobs :
        mockJobs[i].status = "booked" =>
            /\ << "booked", "en-route" >> \in driverTransitions
            /\ canDriverEditJob(mockJobs[i])

\* C26: when a job reaches collected, its linked booking advances to
\* collected in the same step if it is in scheduled, and is left unchanged
\* if it is in any other status.
C26_CollectedSyncsBooking ==
    [][ \A i \in DOMAIN mockJobs :
          (mockJobs[i].status # "collected" /\ mockJobs'[i].status = "collected") =>
              LET b == mockJobs[i].bookingId IN
              mockBookings'[b] =
                  IF mockBookings[b].status = "scheduled"
                  THEN [mockBookings[b] EXCEPT !.status = "collected"]
                  ELSE mockBookings[b] ]_vars

\* C26 witness: the driver has collected, the booking that assignDriver had
\* scheduled is collected with it, and no admin milestone is stamped yet.
C26_Witness ==
    \E b \in BookingIds :
        /\ mockBookings[b].status = "collected"
        /\ mockBookings[b].scheduledAt # Unset
        /\ mockBookings[b].sanitisedAt = Unset
        /\ \E j \in LinkedJobs(b) : j.status = "collected"

\* The job statuses beyond the driver's stages.
CascadeOnlyStatuses == {"sanitised", "graded", "finalised"}

\* The state half of C27: the driver edit check is false for every job in
\* warehouse, sanitised, graded or finalised.
C27_NoEditBeyondWarehouse ==
    \A i \in DOMAIN mockJobs :
        mockJobs[i].status \in (CascadeOnlyStatuses \cup {"warehouse"}) =>
            ~canDriverEditJob(mockJobs[i])

\* The step half of C27: a step that brings a job into sanitised, graded or
\* finalised is a step of UpdateStatus or the job-writing stretch of
\* CompleteBooking, RecordSanitisation or RecordGrading, and never a step of
\* the driver.
C27_CascadeOnlyStep ==
    (\E i \in DOMAIN mockJobs :
        /\ mockJobs'[i].status \in CascadeOnlyStatuses
        /\ mockJobs'[i].status # mockJobs[i].status)
    => /\ \/ UpdateStatus
          \/ \E c \in CallIds :
                CompleteCheck(c) \/ SanitisationJobWrite(c) \/ GradingJobWrite(c)
       /\ ~DriverUpdate

\* C27: a driver can never set a job to sanitised, graded or finalised: the
\* driver edit check is false for every job in warehouse, sanitised, graded
\* or finalised, and those three statuses are reached only through the
\* booking cascade (UpdateStatus, CompleteBooking, RecordSanitisation,
\* RecordGrading).
C27_DriverNeverBeyondWarehouse ==
    []C27_NoEditBeyondWarehouse /\ [][C27_CascadeOnlyStep]_vars

\* C27 witness: the cascade has taken a job all the way to finalised, where
\* the driver edit check refuses it.
C27_Witness ==
    \E i \in DOMAIN mockJobs :
        /\ mockJobs[i].status = "finalised"
        /\ mockJobs[i].completedDate # Unset
        /\ ~canDriverEditJob(mockJobs[i])

CallsOn(op, bookingId) ==
    { c \in CallIds : inFlight[c].op = op /\ inFlight[c].bookingId = bookingId }

Returned(c) == inFlight[c].pc = "returned"

\* Two calls of createSanitisationRecord on bookingId whose categories
\* together are all the booking's categories.
TogetherCovering(bookingId) ==
    /\ CallsOn("createSanitisationRecord", bookingId) = CallIds
    /\ { mockBookings[bookingId].assets[i].categoryId :
           i \in DOMAIN mockBookings[bookingId].assets }
         \subseteq { inFlight[c].assetId : c \in CallIds }

\* The orders in which two calls can take their two stretches of interest,
\* the push of the record and the computation of the coverage: each call
\* pushes before it computes.
RaceSchedules ==
    { s \in [1..4 -> CallIds \X {"push", "check"}] :
        /\ \A c \in CallIds, k \in {"push", "check"} :
              \E i \in 1..4 : s[i] = << c, k >>
        /\ \A c \in CallIds, i, j \in 1..4 :
              (s[i] = << c, "push" >> /\ s[j] = << c, "check" >>) => i < j }

RECURSIVE RaceRun(_, _, _, _)
\* The records, the booking and what each call observed after the first k
\* stretches of schedule s, started in the current state: a push appends the
\* call's record, a check computes the coverage from the records as they are
\* and advances the booking under the guard of the cascade.
RaceRun(bookingId, asset, s, k) ==
    IF k = 0
    THEN [ records |-> mockSanitisationRecords,
           booking |-> mockBookings[bookingId],
           observed |-> [c \in CallIds |-> "none"] ]
    ELSE LET before == RaceRun(bookingId, asset, s, k - 1)
             c == s[k][1]
         IN  IF s[k][2] = "push"
             THEN [before EXCEPT
                     !.records = RecordsAfterPush(@, bookingId, asset[c])]
             ELSE [before EXCEPT
                     !.observed[c] =
                        IF AllAssetsCovered(before.booking, before.records, bookingId)
                        THEN "complete" ELSE "incomplete",
                     !.booking =
                        IF SanitisationAdvances(before.booking, before.records, bookingId)
                        THEN [@ EXCEPT !.status = "sanitised"]
                        ELSE @]

\* C29 as stated: for a booking in collected and two RecordSanitisation calls
\* about to be made, there are categories for the two calls that together
\* cover the booking's categories and an interleaving of their stretches in
\* which both calls observe the coverage as not yet complete and the booking
\* stays in collected.
C29_BothCanObserveIncomplete ==
    \A b \in BookingIds :
        ( /\ mockBookings[b].status = "collected"
          /\ \A c \in CallIds : inFlight[c].pc = "idle" ) =>
            \E asset \in [CallIds -> Categories], s \in RaceSchedules :
                /\ { mockBookings[b].assets[i].categoryId :
                       i \in DOMAIN mockBookings[b].assets }
                     \subseteq { asset[c] : c \in CallIds }
                /\ \A c \in CallIds : RaceRun(b, asset, s, 4).observed[c] = "incomplete"
                /\ RaceRun(b, asset, s, 4).booking.status = "collected"

\* The state half of C29, amended: a call that is past its push has its
\* record in the array, and two returned calls that together cover the
\* booking's categories have not both observed the coverage as incomplete.
C29_NotBothIncomplete ==
    /\ \A c \in CallIds :
          PastPush(c, "createSanitisationRecord") =>
              \E k \in DOMAIN mockSanitisationRecords :
                  /\ mockSanitisationRecords[k].bookingId = inFlight[c].bookingId
                  /\ mockSanitisationRecords[k].assetId = inFlight[c].assetId
    /\ \A b \in BookingIds :
          (TogetherCovering(b) /\ \A c \in CallIds : Returned(c))
              => ~ \A c \in CallIds : inFlight[c].observed = "incomplete"

\* The step half of C29, amended: a call that computes the coverage when
\* every category has a record observes it complete and sets a booking still
\* in collected to sanitised; a call whose import throws computes nothing
\* and changes no booking.
C29_CoverageStep ==
    \A c \in CallIds :
        LET b == inFlight[c].bookingId IN
        /\ ( /\ SanitisationCheck(c)
             /\ b \in BookingIds
             /\ EveryCategoryHasRecord(b, mockSanitisationRecords) ) =>
               /\ inFlight'[c].observed = "complete"
               /\ mockBookings[b].status = "collected" =>
                     mockBookings'[b].status = "sanitised"
        /\ SanitisationImportFails(c) =>
               /\ inFlight'[c].observed = inFlight[c].observed
               /\ mockBookings' = mockBookings

\* C29, amended: two RecordSanitisation calls for the same booking that
\* together cover all of the booking's categories cannot both observe the
\* coverage as not yet complete, however their stretches interleave: each
\* call appends its record before it suspends inside the cascade and
\* computes the coverage when it resumes, so a call that computes the
\* coverage after both records are appended observes it complete and sets a
\* booking still in collected to sanitised; a call whose import of the
\* bookings throws computes nothing and changes no booking.
C29_CoverageNeverMissed == []C29_NotBothIncomplete /\ [][C29_CoverageStep]_vars

\* Two calls for the two categories of a booking were interleaved (each
\* pushed before the other computed the coverage, so both observed it
\* complete); the booking and its job are sanitised.
C29_Witness ==
    /\ \A c \in CallIds : Returned(c) /\ inFlight[c].observed = "complete"
    /\ inFlight["call-1"].assetId # inFlight["call-2"].assetId
    /\ TogetherCovering("b1")
    /\ Len(mockBookings["b1"].assets) = 2
    /\ mockBookings["b1"].status = "sanitised"
    /\ mockJobs[1].status = "sanitised"

\* A completeBooking call that has passed the status check.
PassedCheck(c) ==
    /\ inFlight[c].op = "completeBooking"
    /\ \/ inFlight[c].pc \in {"import-commission", "import-invoice"}
       \/ inFlight[c].result = "ok"

\* C30 as stated: of two CompleteBooking calls for the same graded booking
\* interleaved at their awaits, exactly one succeeds and the other fails with
\* VALIDATION_ERROR, and exactly one invoice and at most one commission are
\* created for the booking.
C30_ExactlyOneInvoiceCreated ==
    \A b \in BookingIds :
        ( /\ CallsOn("completeBooking", b) = CallIds
          /\ \A c \in CallIds : Returned(c) )
        => /\ \E c \in CallIds :
                 /\ inFlight[c].result = "ok"
                 /\ \A d \in CallIds \ {c} : inFlight[d].result = "VALIDATION_ERROR"
           /\ Cardinality(InvoicesOf(b)) = 1
           /\ Cardinality(CommissionsOf(b)) <= 1

\* The state half of C30, amended: at most one call passes the status check,
\* at most one invoice and one commission exist for the booking, and of two
\* returned calls one has succeeded and the other failed.
C30_OneWinner ==
    \A b \in BookingIds :
        /\ Cardinality({ c \in CallsOn("completeBooking", b) : PassedCheck(c) }) <= 1
        /\ Cardinality(InvoicesOf(b)) <= 1
        /\ Cardinality(CommissionsOf(b)) <= 1
        /\ ( /\ CallsOn("completeBooking", b) = CallIds
             /\ \A c \in CallIds : Returned(c) )
           => \E c \in CallIds :
                 /\ inFlight[c].result = "ok"
                 /\ \A d \in CallIds \ {c} : inFlight[d].result = "VALIDATION_ERROR"

\* The step half of C30, amended: the invoice block of the succeeding call
\* appends one invoice when its import resolves; a block whose import throws
\* appends nothing; nothing else writes the invoices.
C30_InvoiceStep ==
    /\ \A c \in CallIds :
          /\ CompleteInvoice(c) =>
                /\ Len(mockInvoices') = Len(mockInvoices) + 1
                /\ mockInvoices'[Len(mockInvoices')].bookingId = inFlight[c].bookingId
                /\ inFlight'[c].result = "ok"
          /\ CompleteImportFails(c) =>
                /\ mockInvoices' = mockInvoices
                /\ mockCommissions' = mockCommissions
                /\ inFlight[c].pc = "import-invoice" => inFlight'[c].result = "ok"
    /\ mockInvoices' # mockInvoices => \E c \in CallIds : CompleteInvoice(c)

\* C30, amended: of two CompleteBooking calls for the same graded booking
\* interleaved at their awaits, exactly one succeeds and the other fails with
\* VALIDATION_ERROR, and at most one invoice and at most one commission are
\* created for the booking: the succeeding call appends the invoice when the
\* import of its invoice block resolves and no invoice when it throws, and
\* it succeeds either way.
C30_OneCompletionWins == []C30_OneWinner /\ [][C30_InvoiceStep]_vars

\* Both calls for b1 have returned, one with the booking and one with the
\* error; the booking has a reseller, one commission and one invoice.
C30_Witness ==
    /\ CallsOn("completeBooking", "b1") = CallIds
    /\ { inFlight[c].result : c \in CallIds } = {"ok", "VALIDATION_ERROR"}
    /\ \A c \in CallIds : Returned(c)
    /\ mockBookings["b1"].status = "completed"
    /\ Cardinality(InvoicesOf("b1")) = 1
    /\ Cardinality(CommissionsOf("b1")) = 1

====
